---- MODULE Spec2Model ----
(***************************************************************************)
(* Model of the session / transaction plumbing of the modular monolith:    *)
(*   - the request-scoped session ContextVar and the with_session wrapper, *)
(*   - the UnitOfWork context manager,                                     *)
(*   - the ModuleBase registry and its combined metadata,                  *)
(*   - the user repository and UserService over a relational store.        *)
(* Each part has its own specification; the variables of the other parts   *)
(* are held at their initial value.                                        *)
(***************************************************************************)
EXTENDS Integers, Sequences, FiniteSets, TLC

(***************************************************************************)
(* Bounds of the model.                                                    *)
(***************************************************************************)
\* concurrent requests (asyncio tasks), each with its own context
NumTasks == 2
\* with_session calls made by one task, one after the other
MaxCalls == 2
\* close() calls in flight at once
MaxClosers == 1

\* entities a unit-of-work block may add
MaxEntities == 2
\* repository / unit-of-work calls made inside one block
MaxOps == 3

\* module names, schema names and table names known to the registry
NumModules == 2
NumSchemas == 2
NumTables == 2
\* calls made on the registry
MaxRegOps == 5

\* distinct e-mail addresses and usernames, each written in lower case or with
\* upper-case letters
NumEmails == 2
NumUsernames == 2
\* repository / service calls made through one session
MaxRepoOps == 4

\* requests answered by the exception handlers
MaxRequests == 2

\* names a profile can carry, and calls made on one User
NumNames == 2
MaxUserOps == 4

\* users made through the API, seeders registered with a SeedRunner, and
\* operations on the seeded database
NumApiUsers == 1
MaxSeeders == 2
MaxSeedOps == 3

\* entries of users_data, profiles_data and files_data in the seeders
SeedRows == 3

\* File.create calls, and how far around File.MAX_FILE_SIZE the sizes go
MaxFileOps == 2
MaxOver == 1

\* calls on one DatabaseConnection
MaxConnOps == 6
\* close() calls on it that wait in dispose() at once
MaxConnClosers == 2
\* users of the file part, and calls made on one File
NumFileUsers == 2
MaxAccessOps == 4
\* requests in flight at once, requests in all, and the e-mail addresses and
\* usernames they carry
NumSlots == 2
MaxTxns == 3
NumTxnEmails == 1
NumTxnNames == 2

\* File.MAX_FILE_SIZE, 100 * 1024 * 1024 bytes
MAX_FILE_SIZE == 104857600

Tasks == 1..NumTasks
Entities == 1..MaxEntities
\* every call opens a session of its own: call k of task t opens SessionOf(t, k)
Sessions == 1..(NumTasks * MaxCalls)
SessionOf(t, k) == (t - 1) * MaxCalls + k
\* ContextVar default (None)
NoSession == 0
ModuleNames == 1..NumModules
SchemaNames == 1..NumSchemas
TableNames == 1..NumTables
\* no ModuleBase object
NoBase == 0
\* primary keys uuid4 hands out, in the order of creation
UserIds == 1..MaxRepoOps
\* the texts of the strings: words over the letters 1, 2, ...; the i-th text
\* is the word of the first i letters, so a shorter text is a part of every
\* longer one
Word(i) == [j \in 1..i |-> j]
\* a string: its text up to letter case, and whether it has upper-case letters
EmailStrings == [text : {Word(i) : i \in 1..NumEmails}, upper : BOOLEAN]
UsernameStrings == [text : {Word(i) : i \in 1..NumUsernames}, upper : BOOLEAN]
\* the None an Optional result holds when no row matches
NoUser == [id |-> 0]
\* the lists add_many is called with: one or two new users (e-mail,
\* username); the address is written in lower case, Email lower-casing it
\* in any case
NewUserLists ==
    UNION {[1..n -> [email : {e \in EmailStrings : ~e.upper},
                     username : UsernameStrings]] : n \in 1..2}
\* an argument a call does not take
NoString == [text |-> <<>>, upper |-> FALSE]
\* the terms search is called with: the empty string, every part of an
\* address or a username, and a text that is in none of them
SearchTerms ==
    LET n == IF NumEmails > NumUsernames THEN NumEmails ELSE NumUsernames
    IN  [text : {SubSeq(Word(n), i, j) : i \in 1..(n + 1), j \in 0..n}
                \cup {<<0>>},
         upper : BOOLEAN]
\* the search_fields search is called with: columns of UserModel, and a
\* name that is no attribute of the model class
SearchFields == SUBSET {"email", "username", "no_such_field"}

VARIABLES
    \* ---- infrastructure/database/connection.py, session_context.py,
    \* ---- shared/decorators/session_decorator.py
    factory,      \* db._session_factory is not None
    closing,      \* close() calls suspended in `await self._engine.dispose()`
    sessState,    \* session -> "unused" | "open" | "closed"
    CURRENT_SESSION, \* the ContextVar: one value per task context
    wpc,          \* task -> position in the wrapper
    calls,        \* task -> wrapper calls started
    sess,         \* task -> session of the running call (NoSession: none)
    funcRes,      \* task -> how func ended
    pending,      \* task -> exception caught by `except Exception`
    nCommit,      \* task -> session.commit calls of this call
    nRollback,    \* task -> session.rollback calls of this call
    rollbackRes,  \* task -> "none" | "ok" | "raised": how session.rollback ended
    outcome,      \* task -> "none" | "returned" | "raised"
    exc,          \* task -> the exception that left the wrapper
    \* ---- shared/repositories/unit_of_work.py
    upc,            \* "block" | "raising" | "exited"
    nOps,           \* calls made in the block so far
    inflight,       \* exception travelling out of the block body
    is_committed,   \* UnitOfWork._is_committed
    is_rolled_back, \* UnitOfWork._is_rolled_back
    stored,         \* entities committed to the database
    flushed,        \* entities flushed in the session's open transaction
    added,          \* entities added through the repository in the block
    undone,         \* added entities with a session.rollback after their add
    explicit,       \* uow.commit() or uow.rollback() was called in the block
    lastCall,       \* record of the last UnitOfWork.commit / rollback call
    exitCall,       \* record of the __aexit__ call
    sessionCalls,   \* session.commit / session.rollback calls made through the
                    \* unit of work: all of them, and the ones that returned
    uowCall,        \* the last commit(), rollback() or exit: what it was and
                    \* the flags and the session calls when it started
    \* ---- infrastructure/database/base.py
    MODULE_BASES,   \* the registry dict: entries [key, value] in insertion order
    objects,        \* the ModuleBase objects created, by object identity
    firstBase,      \* module name -> object of its first registration
    firstSchema,    \* module name -> schema name of its first registration
    regCall,        \* record of the last registry call
    combined,       \* tables of the metadata get_combined_metadata returned
    before,         \* registry and objects when the last call started
    nRegOps,        \* registry calls made
    \* ---- shared/repositories/base_repository.py, modules/user_management
    users,          \* rows of the users table as the session sees them
    nextId,         \* primary keys handed out so far
    held,           \* id -> the entity the caller got from get_by_id (or NoUser)
    softDeleted,    \* ids of rows on which delete(id, soft=True) was executed
    repoCall,       \* record of the last repository / service call
    usersBefore,    \* the table when the last call started
    broken,         \* a database error has aborted the session's transaction
    nRepoOps,       \* calls made
    \* ---- shared/api/error_handler.py, core/exceptions/base_exceptions.py
    raised,         \* the exception leaving the route of the current request
    responses,      \* the responses sent so far, one per answered request
    \* ---- modules/user_management/domain (User, Email), core/domain
    aUser,          \* the User object (NoUserObject before it is made)
    made,           \* "none" | "create" | "init": how the object was made
    userCall,       \* record of the last call on the object
    userBefore,     \* the object when the last call started
    nSuccess,       \* successful update_profile / change_email / activate /
                    \* deactivate calls since the object was made
    cleared,        \* clear_domain_events was called
    nAdded,         \* add_domain_event calls made on the object from outside
                    \* the class since it was made
    nUserOps,       \* calls made
    \* ---- scripts/seed.py, infrastructure/seeds, modules/*/seeds
    seedDb,         \* the committed rows: users, and what seeders added
    dbInitialized,  \* db.is_initialized
    seeders,        \* SeedRunner._seeders
    ran,            \* the kinds of seeding run that have been made
    seedCall,       \* record of the last operation
    seedRun,        \* the call the script is in, and the await it waits in
    nSeedOps,       \* operations made
    \* ---- modules/file_management/domain (File)
    aFile,          \* the File the last successful File.create returned
    nFiles,         \* File objects constructed
    nFileEvents,    \* domain events emitted
    fileCall,       \* record of the last File.create call
    nFileOps,       \* calls made
    \* ---- infrastructure/database/connection.py (DatabaseConnection)
    is_testing,     \* settings.is_testing
    engine,         \* self._engine: NoEngine, or the number of the engine
    session_factory,\* self._session_factory: NoEngine, or the engine it binds
    nEngines,       \* engines created so far
    disposed,       \* the engines that were disposed
    disposing,      \* the close() calls that wait in dispose(): the engine
                    \* and the record of the call
    lifecycle,      \* "new", or the last of initialize / close that was called
    connCall,       \* record of the last call
    nConnOps,       \* calls made
    \* ---- modules/file_management/domain (File: visibility, shares)
    theFile,        \* the File object
    fileMade,       \* File.create has returned it
    accessCall,     \* record of the last call on it
    nAccessOps,     \* calls made
    \* ---- concurrent requests of the user API
    dbRows,         \* the committed rows of the users table
    txn,            \* slot -> the request it runs and its transaction
    nextUserId,     \* ids uuid4 has handed out
    deleteCommitted,\* ids whose delete_user request has committed
    nTxns           \* requests started

sessVars == <<factory, closing, sessState, CURRENT_SESSION, wpc, calls, sess,
              funcRes, pending, nCommit, nRollback, rollbackRes, outcome, exc>>

uowVars == <<upc, nOps, inflight, is_committed, is_rolled_back, stored, flushed,
             added, undone, explicit, lastCall, exitCall, sessionCalls, uowCall>>

regVars == <<MODULE_BASES, objects, firstBase, firstSchema, regCall, combined,
             before, nRegOps>>

repoVars == <<users, nextId, held, softDeleted, repoCall, usersBefore, broken,
              nRepoOps>>

errVars == <<raised, responses>>

userVars ==
    <<aUser, made, userCall, userBefore, nSuccess, cleared, nAdded, nUserOps>>

seedVars ==
    <<seedDb, dbInitialized, seeders, ran, seedRun, seedCall, nSeedOps>>

fileVars == <<aFile, nFiles, nFileEvents, fileCall, nFileOps>>

connVars == <<is_testing, engine, session_factory, nEngines, disposed,
              disposing, lifecycle, connCall, nConnOps>>

accessVars == <<theFile, fileMade, accessCall, nAccessOps>>

txnVars == <<dbRows, txn, nextUserId, deleteCommitted, nTxns>>

vars ==
    <<sessVars, uowVars, regVars, repoVars, errVars, userVars, seedVars,
      fileVars, connVars, accessVars, txnVars>>

\* what the steps of one part leave alone
notSess ==
    <<uowVars, regVars, repoVars, errVars, userVars, seedVars, fileVars,
      connVars, accessVars, txnVars>>
notUow ==
    <<sessVars, regVars, repoVars, errVars, userVars, seedVars, fileVars,
      connVars, accessVars, txnVars>>
notReg ==
    <<sessVars, uowVars, repoVars, errVars, userVars, seedVars, fileVars,
      connVars, accessVars, txnVars>>
notRepo ==
    <<sessVars, uowVars, regVars, errVars, userVars, seedVars, fileVars,
      connVars, accessVars, txnVars>>
notErr ==
    <<sessVars, uowVars, regVars, repoVars, userVars, seedVars, fileVars,
      connVars, accessVars, txnVars>>
notUser ==
    <<sessVars, uowVars, regVars, repoVars, errVars, seedVars, fileVars,
      connVars, accessVars, txnVars>>
notSeed ==
    <<sessVars, uowVars, regVars, repoVars, errVars, userVars, fileVars,
      connVars, accessVars, txnVars>>
notFile ==
    <<sessVars, uowVars, regVars, repoVars, errVars, userVars, seedVars,
      connVars, accessVars, txnVars>>
notConn ==
    <<sessVars, uowVars, regVars, repoVars, errVars, userVars, seedVars,
      fileVars, accessVars, txnVars>>
notAccess ==
    <<sessVars, uowVars, regVars, repoVars, errVars, userVars, seedVars,
      fileVars, connVars, txnVars>>
notTxn ==
    <<sessVars, uowVars, regVars, repoVars, errVars, userVars, seedVars,
      fileVars, connVars, accessVars>>

(***************************************************************************)
(* session_context.py                                                      *)
(***************************************************************************)
\* the two ways a call ends
Return(v) == [value |-> v]
Raise(e) == [raised |-> e]

\* get_current_session(): the session of the caller's context, or RuntimeError
get_current_session(c, t) ==
    IF c[t] = NoSession THEN Raise("RuntimeError") ELSE Return(c[t])

\* a module global shared by all tasks instead of a ContextVar
set_current_session_global(c, t, s) == [u \in Tasks |-> s]

\* set_current_session(session): _CURRENT_SESSION.set(session) in the caller's context
set_current_session(c, t, s) == [c EXCEPT ![t] = s]

\* a clear that leaves the session in the context
clear_current_session_noop(c, t) == c

\* clear_current_session(): _CURRENT_SESSION.set(None) in the caller's context
clear_current_session(c, t) == set_current_session(c, t, NoSession)

(***************************************************************************)
(* DatabaseConnection                                                      *)
(***************************************************************************)
\* initialize(): no-op when already initialized
DbInitialize ==
    /\ ~factory
    /\ factory' = TRUE
    /\ UNCHANGED <<closing, sessState, CURRENT_SESSION, wpc, calls, sess,
                   funcRes, pending, nCommit, nRollback, rollbackRes, outcome, exc>>
    /\ UNCHANGED notSess

\* close(), up to its await: the engine is set, `await self._engine.dispose()`
\* suspends the call with _engine and _session_factory still set.  (On an
\* uninitialized connection close() returns at once and changes nothing.)
DbCloseBegin ==
    /\ factory
    /\ closing < MaxClosers
    /\ closing' = closing + 1
    /\ UNCHANGED <<factory, sessState, CURRENT_SESSION, wpc, calls, sess,
                   funcRes, pending, nCommit, nRollback, rollbackRes, outcome, exc>>
    /\ UNCHANGED notSess

\* close(), after its await: when dispose() returned, `self._engine = None`
\* and `self._session_factory = None`, whatever the requests are doing; when
\* it raised, both stay set
DbCloseEnd(how) ==
    /\ closing > 0
    /\ closing' = closing - 1
    /\ factory' = (how # "ok")
    /\ UNCHANGED <<sessState, CURRENT_SESSION, wpc, calls, sess,
                   funcRes, pending, nCommit, nRollback, rollbackRes, outcome, exc>>
    /\ UNCHANGED notSess

(***************************************************************************)
(* with_session wrapper, one step per await                                *)
(***************************************************************************)
\* leaving the wrapper: the finally clause clears the context
WrapperExit(t, how, e) ==
    /\ CURRENT_SESSION' = clear_current_session(CURRENT_SESSION, t)
    /\ outcome' = [outcome EXCEPT ![t] = how]
    /\ exc' = [exc EXCEPT ![t] = e]
    /\ wpc' = [wpc EXCEPT ![t] = "exited"]

\* wrapper(): `async for session in db.get_session()`; an uninitialized
\* connection raises RuntimeError before any session exists
EnterNoFactory(t) ==
    /\ wpc[t] = "idle"
    /\ calls[t] < MaxCalls
    /\ ~factory
    /\ calls' = [calls EXCEPT ![t] = @ + 1]
    /\ outcome' = [outcome EXCEPT ![t] = "raised"]
    /\ exc' = [exc EXCEPT ![t] = "RuntimeError"]
    /\ wpc' = [wpc EXCEPT ![t] = "exited"]
    /\ UNCHANGED <<factory, closing, sessState, CURRENT_SESSION, sess,
                   funcRes, pending, nCommit, nRollback, rollbackRes>>
    /\ UNCHANGED notSess

\* wrapper(): session created, set_current_session(session), func started
Enter(t) ==
    /\ wpc[t] = "idle"
    /\ calls[t] < MaxCalls
    /\ factory
    /\ sessState' = [sessState EXCEPT ![SessionOf(t, calls[t] + 1)] = "open"]
    /\ sess' = [sess EXCEPT ![t] = SessionOf(t, calls[t] + 1)]
    /\ CURRENT_SESSION' =
           set_current_session(CURRENT_SESSION, t, SessionOf(t, calls[t] + 1))
    /\ calls' = [calls EXCEPT ![t] = @ + 1]
    /\ wpc' = [wpc EXCEPT ![t] = "func"]
    /\ UNCHANGED <<factory, closing, funcRes, pending, nCommit, nRollback, rollbackRes, outcome,
                   exc>>
    /\ UNCHANGED notSess

\* `result = await func(...)` returns
FuncReturn(t) ==
    /\ wpc[t] = "func"
    /\ funcRes' = [funcRes EXCEPT ![t] = "returned"]
    /\ wpc' = [wpc EXCEPT ![t] = "commit"]
    /\ UNCHANGED <<factory, closing, sessState, CURRENT_SESSION, calls, sess,
                   pending, nCommit, nRollback, rollbackRes, outcome, exc>>
    /\ UNCHANGED notSess

\* a wrapper that commits whatever func did, also when it raised
FuncRaise_commits(t) ==
    /\ wpc[t] = "func"
    /\ funcRes' = [funcRes EXCEPT ![t] = "FuncError"]
    /\ wpc' = [wpc EXCEPT ![t] = "commit"]
    /\ UNCHANGED <<factory, closing, sessState, CURRENT_SESSION, calls, sess,
                   pending, nCommit, nRollback, rollbackRes, outcome, exc>>
    /\ UNCHANGED notSess

\* func raises an Exception: caught by `except Exception`
FuncRaise(t) ==
    /\ wpc[t] = "func"
    /\ funcRes' = [funcRes EXCEPT ![t] = "FuncError"]
    /\ pending' = [pending EXCEPT ![t] = "FuncError"]
    /\ wpc' = [wpc EXCEPT ![t] = "rollback"]
    /\ UNCHANGED <<factory, closing, sessState, CURRENT_SESSION, calls, sess,
                   nCommit, nRollback, rollbackRes, outcome, exc>>
    /\ UNCHANGED notSess

\* func ends by a BaseException that is no Exception (asyncio.CancelledError):
\* `except Exception` does not catch it, only the finally clause runs
FuncCancelled(t) ==
    /\ wpc[t] = "func"
    /\ funcRes' = [funcRes EXCEPT ![t] = "Cancelled"]
    /\ WrapperExit(t, "raised", "Cancelled")
    /\ UNCHANGED <<factory, closing, sessState, calls, sess, pending,
                   nCommit, nRollback, rollbackRes>>
    /\ UNCHANGED notSess

\* `await session.commit()` succeeds; `return result`
CommitOk(t) ==
    /\ wpc[t] = "commit"
    /\ nCommit' = [nCommit EXCEPT ![t] = @ + 1]
    /\ WrapperExit(t, "returned", "none")
    /\ UNCHANGED <<factory, closing, sessState, calls, sess, funcRes,
                   pending, nRollback, rollbackRes>>
    /\ UNCHANGED notSess

\* `await session.commit()` raises: caught by `except Exception`
CommitFail(t) ==
    /\ wpc[t] = "commit"
    /\ nCommit' = [nCommit EXCEPT ![t] = @ + 1]
    /\ pending' = [pending EXCEPT ![t] = "CommitError"]
    /\ wpc' = [wpc EXCEPT ![t] = "rollback"]
    /\ UNCHANGED <<factory, closing, sessState, CURRENT_SESSION, calls, sess,
                   funcRes, nRollback, rollbackRes, outcome, exc>>
    /\ UNCHANGED notSess

\* `await session.commit()` ends in a BaseException that is no Exception
\* (asyncio.CancelledError): not caught, no rollback, only the finally clause
CommitCancelled(t) ==
    /\ wpc[t] = "commit"
    /\ nCommit' = [nCommit EXCEPT ![t] = @ + 1]
    /\ WrapperExit(t, "raised", "Cancelled")
    /\ UNCHANGED <<factory, closing, sessState, calls, sess, funcRes,
                   pending, nRollback, rollbackRes>>
    /\ UNCHANGED notSess

\* `await session.rollback()` succeeds; `raise` re-raises the caught exception
RollbackOk(t) ==
    /\ wpc[t] = "rollback"
    /\ nRollback' = [nRollback EXCEPT ![t] = @ + 1]
    /\ rollbackRes' = [rollbackRes EXCEPT ![t] = "ok"]
    /\ WrapperExit(t, "raised", pending[t])
    /\ UNCHANGED <<factory, closing, sessState, calls, sess, funcRes,
                   pending, nCommit>>
    /\ UNCHANGED notSess

\* `await session.rollback()` raises inside the except clause: its exception
\* replaces the caught one
RollbackFail(t) ==
    /\ wpc[t] = "rollback"
    /\ nRollback' = [nRollback EXCEPT ![t] = @ + 1]
    /\ rollbackRes' = [rollbackRes EXCEPT ![t] = "raised"]
    /\ WrapperExit(t, "raised", "RollbackError")
    /\ UNCHANGED <<factory, closing, sessState, calls, sess, funcRes,
                   pending, nCommit>>
    /\ UNCHANGED notSess

\* `await session.rollback()` ends in asyncio.CancelledError inside the except
\* clause: it leaves the wrapper in place of the caught exception
RollbackCancelled(t) ==
    /\ wpc[t] = "rollback"
    /\ nRollback' = [nRollback EXCEPT ![t] = @ + 1]
    /\ rollbackRes' = [rollbackRes EXCEPT ![t] = "cancelled"]
    /\ WrapperExit(t, "raised", "Cancelled")
    /\ UNCHANGED <<factory, closing, sessState, calls, sess, funcRes,
                   pending, nCommit>>
    /\ UNCHANGED notSess

\* the get_session() generator, left suspended at its yield when the wrapper
\* returned or raised, is finalized by the event loop: `finally: session.close()`
Finalize(s) ==
    /\ sessState[s] = "open"
    /\ \A t \in Tasks : sess[t] = s => wpc[t] = "exited"
    /\ sessState' = [sessState EXCEPT ![s] = "closed"]
    /\ UNCHANGED <<factory, closing, CURRENT_SESSION, wpc, calls, sess,
                   funcRes, pending, nCommit, nRollback, rollbackRes, outcome, exc>>
    /\ UNCHANGED notSess

\* the task goes on to its next wrapped call; the generator of the previous
\* call may still wait for its finalizer, its session still open
NextCall(t) ==
    /\ wpc[t] = "exited"
    /\ calls[t] < MaxCalls
    /\ wpc' = [wpc EXCEPT ![t] = "idle"]
    /\ sess' = [sess EXCEPT ![t] = NoSession]
    /\ funcRes' = [funcRes EXCEPT ![t] = "none"]
    /\ pending' = [pending EXCEPT ![t] = "none"]
    /\ nCommit' = [nCommit EXCEPT ![t] = 0]
    /\ nRollback' = [nRollback EXCEPT ![t] = 0]
    /\ rollbackRes' = [rollbackRes EXCEPT ![t] = "none"]
    /\ outcome' = [outcome EXCEPT ![t] = "none"]
    /\ exc' = [exc EXCEPT ![t] = "none"]
    /\ UNCHANGED <<factory, closing, sessState, CURRENT_SESSION, calls>>
    /\ UNCHANGED notSess

SessInit ==
    /\ factory = FALSE
    /\ closing = 0
    /\ sessState = [s \in Sessions |-> "unused"]
    /\ CURRENT_SESSION = [t \in Tasks |-> NoSession]
    /\ wpc = [t \in Tasks |-> "idle"]
    /\ calls = [t \in Tasks |-> 0]
    /\ sess = [t \in Tasks |-> NoSession]
    /\ funcRes = [t \in Tasks |-> "none"]
    /\ pending = [t \in Tasks |-> "none"]
    /\ nCommit = [t \in Tasks |-> 0]
    /\ nRollback = [t \in Tasks |-> 0]
    /\ rollbackRes = [t \in Tasks |-> "none"]
    /\ outcome = [t \in Tasks |-> "none"]
    /\ exc = [t \in Tasks |-> "none"]

SessNext ==
    \/ DbInitialize
    \/ DbCloseBegin
    \/ \E how \in {"ok", "raised"} : DbCloseEnd(how)
    \/ \E t \in Tasks : EnterNoFactory(t)
    \/ \E t \in Tasks : Enter(t)
    \/ \E t \in Tasks : FuncReturn(t)
    \/ \E t \in Tasks : FuncRaise(t)
    \/ \E t \in Tasks : FuncCancelled(t)
    \/ \E t \in Tasks : CommitOk(t)
    \/ \E t \in Tasks : CommitFail(t)
    \/ \E t \in Tasks : CommitCancelled(t)
    \/ \E t \in Tasks : RollbackOk(t)
    \/ \E t \in Tasks : RollbackFail(t)
    \/ \E t \in Tasks : RollbackCancelled(t)
    \/ \E s \in Sessions : Finalize(s)
    \/ \E t \in Tasks : NextCall(t)

(***************************************************************************)
(* UnitOfWork (shared/repositories/unit_of_work.py), used inside a request *)
(* whose session is in the context.  The block body is a sequence of       *)
(* repository adds and explicit uow.commit() / uow.rollback() calls that   *)
(* ends normally or by an exception.                                       *)
(***************************************************************************)
\* the unit of work and the session it reaches through the context
UowState ==
    [is_committed |-> is_committed, is_rolled_back |-> is_rolled_back,
     stored |-> stored, flushed |-> flushed]

\* a call that touches nothing and returns
Quiet(st) ==
    [st |-> st, sCommit |-> "none", sRollback |-> "none", res |-> "ok"]

\* a rollback() that does not look at the flag
rollback_unguarded(st) ==
    {[st |-> [st EXCEPT !.flushed = {}, !.is_rolled_back = TRUE],
      sCommit |-> "none", sRollback |-> "ok", res |-> "ok"],
     [st |-> [st EXCEPT !.flushed = {}],
      sCommit |-> "none", sRollback |-> "raised", res |-> "RollbackError"],
     [st |-> [st EXCEPT !.flushed = {}],
      sCommit |-> "none", sRollback |-> "cancelled", res |-> "Cancelled"]}

\* UnitOfWork.rollback(): the outcomes of one call, `res` the exception it
\* raises ("ok": none).  session.rollback() discards the open transaction;
\* when it raises, the flag is not set and the exception is re-raised; when
\* it ends in asyncio.CancelledError (a BaseException, not caught by
\* `except Exception`) the flag is not set either and that one propagates.
rollback(st) ==
    IF st.is_rolled_back
    THEN {Quiet(st)}
    ELSE {[st |-> [st EXCEPT !.flushed = {}, !.is_rolled_back = TRUE],
           sCommit |-> "none", sRollback |-> "ok", res |-> "ok"],
          [st |-> [st EXCEPT !.flushed = {}],
           sCommit |-> "none", sRollback |-> "raised", res |-> "RollbackError"],
          [st |-> [st EXCEPT !.flushed = {}],
           sCommit |-> "none", sRollback |-> "cancelled", res |-> "Cancelled"]}

\* a commit that only logs the failure of session.commit and re-raises
commit_no_rollback(st) ==
    IF st.is_rolled_back \/ st.is_committed
    THEN {Quiet(st)}
    ELSE {[st |-> [st EXCEPT !.stored = @ \cup st.flushed, !.flushed = {},
                             !.is_committed = TRUE],
           sCommit |-> "ok", sRollback |-> "none", res |-> "ok"],
          [st |-> st,
           sCommit |-> "raised", sRollback |-> "none", res |-> "CommitError"],
          [st |-> st,
           sCommit |-> "cancelled", sRollback |-> "none", res |-> "Cancelled"]}

\* UnitOfWork.commit(): no-op after a rollback or a commit; otherwise
\* session.commit(); when that raises an Exception, self.rollback() and
\* re-raise; when it ends in asyncio.CancelledError, `except Exception` does
\* not catch it: no rollback, no flag set, the CancelledError propagates
commit(st) ==
    IF st.is_rolled_back
    THEN {Quiet(st)}
    ELSE IF st.is_committed
    THEN {Quiet(st)}
    ELSE {[st |-> [st EXCEPT !.stored = @ \cup st.flushed, !.flushed = {},
                             !.is_committed = TRUE],
           sCommit |-> "ok", sRollback |-> "none", res |-> "ok"]}
         \cup
         {[r EXCEPT !.sCommit = "raised",
                    !.res = IF r.res = "ok" THEN "CommitError" ELSE r.res] :
            r \in rollback(st)}
         \cup
         {[st |-> st,
           sCommit |-> "cancelled", sRollback |-> "none", res |-> "Cancelled"]}

\* an exit that commits whenever the block did not raise
aexit_always_commits(st, e) ==
    IF e # "none"
    THEN {[r EXCEPT !.res = IF r.res = "ok" THEN e ELSE r.res] :
            r \in rollback(st)}
    ELSE commit([st EXCEPT !.is_committed = FALSE, !.is_rolled_back = FALSE])

\* an exit that commits the work of a block that raised
aexit_commits_on_error(st, e) ==
    IF e # "none"
    THEN {[r EXCEPT !.res = IF r.res = "ok" THEN e ELSE r.res] :
            r \in commit(st)}
    ELSE IF ~st.is_committed /\ ~st.is_rolled_back
    THEN commit(st)
    ELSE {Quiet(st)}

\* UnitOfWork.__aexit__(exc_type, ...): rollback() when the block raised,
\* else commit() unless already committed or rolled back; it returns None,
\* so the block's exception propagates unless the call itself raises
aexit(st, e) ==
    IF e # "none"
    THEN {[r EXCEPT !.res = IF r.res = "ok" THEN e ELSE r.res] :
            r \in rollback(st)}
    ELSE IF ~st.is_committed /\ ~st.is_rolled_back
    THEN commit(st)
    ELSE {Quiet(st)}

\* the record kept of a call
CallRecord(name, o) ==
    [op |-> name, sCommit |-> o.sCommit, sRollback |-> o.sRollback,
     res |-> o.res, committed |-> o.st.is_committed,
     rolled_back |-> o.st.is_rolled_back]

NoCall ==
    [op |-> "none", sCommit |-> "none", sRollback |-> "none", res |-> "none",
     committed |-> FALSE, rolled_back |-> FALSE]

NoExit ==
    [bodyExc |-> "none", cBefore |-> FALSE, rBefore |-> FALSE,
     sCommit |-> "none", sRollback |-> "none", res |-> "none"]

\* the effect of a call's outcome on the unit of work and the session
Apply(o) ==
    /\ is_committed' = o.st.is_committed
    /\ is_rolled_back' = o.st.is_rolled_back
    /\ stored' = o.st.stored
    /\ flushed' = o.st.flushed
    /\ undone' = IF o.sRollback # "none" THEN undone \cup added ELSE undone
    /\ sessionCalls' =
          [commit_all |-> sessionCalls.commit_all
                          + (IF o.sCommit # "none" THEN 1 ELSE 0),
           commit_ok |-> sessionCalls.commit_ok
                         + (IF o.sCommit = "ok" THEN 1 ELSE 0),
           rollback_all |-> sessionCalls.rollback_all
                            + (IF o.sRollback # "none" THEN 1 ELSE 0),
           rollback_ok |-> sessionCalls.rollback_ok
                           + (IF o.sRollback = "ok" THEN 1 ELSE 0)]

NoSessionCalls ==
    [commit_all |-> 0, commit_ok |-> 0, rollback_all |-> 0, rollback_ok |-> 0]

\* what is kept of a commit(), rollback() or exit that starts now
UowCallOf(name) ==
    [op |-> name, committed |-> is_committed, rolled_back |-> is_rolled_back,
     calls |-> sessionCalls]

\* BaseRepository.add(entity): session.add, flush, refresh
BodyAdd(e) ==
    /\ upc = "block"
    /\ nOps < MaxOps
    /\ e \notin added
    /\ flushed' = flushed \cup {e}
    /\ added' = added \cup {e}
    /\ nOps' = nOps + 1
    /\ UNCHANGED <<upc, inflight, is_committed, is_rolled_back, stored, undone,
                   explicit, lastCall, exitCall, sessionCalls, uowCall>>
    /\ UNCHANGED notUow

\* `await uow.commit()` in the block
BodyCommit ==
    /\ upc = "block"
    /\ nOps < MaxOps
    /\ \E o \in commit(UowState) :
          /\ Apply(o)
          /\ lastCall' = CallRecord("commit", o)
          /\ uowCall' = UowCallOf("commit")
          /\ upc' = IF o.res = "ok" THEN "block" ELSE "raising"
          /\ inflight' = IF o.res = "ok" THEN "none" ELSE o.res
    /\ explicit' = TRUE
    /\ nOps' = nOps + 1
    /\ UNCHANGED <<added, exitCall>>
    /\ UNCHANGED notUow

\* `await uow.rollback()` in the block
BodyRollback ==
    /\ upc = "block"
    /\ nOps < MaxOps
    /\ \E o \in rollback(UowState) :
          /\ Apply(o)
          /\ lastCall' = CallRecord("rollback", o)
          /\ uowCall' = UowCallOf("rollback")
          /\ upc' = IF o.res = "ok" THEN "block" ELSE "raising"
          /\ inflight' = IF o.res = "ok" THEN "none" ELSE o.res
    /\ explicit' = TRUE
    /\ nOps' = nOps + 1
    /\ UNCHANGED <<added, exitCall>>
    /\ UNCHANGED notUow

\* the body raises an exception of its own
BodyRaise ==
    /\ upc = "block"
    /\ nOps < MaxOps
    /\ upc' = "raising"
    /\ inflight' = "BlockError"
    /\ nOps' = nOps + 1
    /\ UNCHANGED <<is_committed, is_rolled_back, stored, flushed, added, undone,
                   explicit, lastCall, exitCall, sessionCalls, uowCall>>
    /\ UNCHANGED notUow

\* the body catches the exception of a call (try / except inside the block)
\* and goes on
BodyCatch ==
    /\ upc = "raising"
    /\ nOps < MaxOps
    /\ upc' = "block"
    /\ inflight' = "none"
    /\ UNCHANGED <<nOps, is_committed, is_rolled_back, stored, flushed, added,
                   undone, explicit, lastCall, exitCall, sessionCalls, uowCall>>
    /\ UNCHANGED notUow

\* the block is left, normally (inflight = "none") or by an exception
Exit ==
    /\ upc \in {"block", "raising"}
    /\ \E o \in aexit(UowState, inflight) :
          /\ Apply(o)
          /\ exitCall' = [bodyExc |-> inflight, cBefore |-> is_committed,
                          rBefore |-> is_rolled_back, sCommit |-> o.sCommit,
                          sRollback |-> o.sRollback, res |-> o.res]
          /\ lastCall' = IF o.sCommit # "none" THEN CallRecord("commit", o)
                         ELSE IF o.sRollback # "none"
                         THEN CallRecord("rollback", o)
                         ELSE lastCall
    /\ uowCall' = UowCallOf("exit")
    /\ upc' = "exited"
    /\ UNCHANGED <<nOps, inflight, added, explicit>>
    /\ UNCHANGED notUow

\* `await uow.commit()` on the instance after its block was left; an
\* exception it raises goes to the caller
LateCommit ==
    /\ upc = "exited"
    /\ nOps < MaxOps
    /\ \E o \in commit(UowState) :
          /\ Apply(o)
          /\ lastCall' = CallRecord("commit", o)
    /\ uowCall' = UowCallOf("commit")
    /\ nOps' = nOps + 1
    /\ UNCHANGED <<upc, inflight, added, explicit, exitCall>>
    /\ UNCHANGED notUow

\* `await uow.rollback()` on the instance after its block was left
LateRollback ==
    /\ upc = "exited"
    /\ nOps < MaxOps
    /\ \E o \in rollback(UowState) :
          /\ Apply(o)
          /\ lastCall' = CallRecord("rollback", o)
    /\ uowCall' = UowCallOf("rollback")
    /\ nOps' = nOps + 1
    /\ UNCHANGED <<upc, inflight, added, explicit, exitCall>>
    /\ UNCHANGED notUow

\* `async with uow:` on the same instance once more: __aenter__ returns self
\* and resets nothing
Reenter ==
    /\ upc = "exited"
    /\ nOps < MaxOps
    /\ upc' = "block"
    /\ inflight' = "none"
    /\ nOps' = nOps + 1
    /\ UNCHANGED <<is_committed, is_rolled_back, stored, flushed, added, undone,
                   explicit, lastCall, exitCall, sessionCalls, uowCall>>
    /\ UNCHANGED notUow

\* the None a lookup returns when no row matches
NoEntity == 0

\* repository lookup through the session after the block: what the database
\* holds and what the session's open transaction has flushed
lookup(e) == IF e \in stored \cup flushed THEN Return(e) ELSE Return(NoEntity)

UowInit ==
    /\ upc = "block"
    /\ nOps = 0
    /\ inflight = "none"
    /\ is_committed = FALSE
    /\ is_rolled_back = FALSE
    /\ stored = {}
    /\ flushed = {}
    /\ added = {}
    /\ undone = {}
    /\ explicit = FALSE
    /\ lastCall = NoCall
    /\ exitCall = NoExit
    /\ sessionCalls = NoSessionCalls
    /\ uowCall = [op |-> "none", committed |-> FALSE, rolled_back |-> FALSE,
                  calls |-> NoSessionCalls]

UowNext ==
    \/ \E e \in Entities : BodyAdd(e)
    \/ BodyCommit
    \/ BodyRollback
    \/ BodyRaise
    \/ BodyCatch
    \/ Exit

\* the same, with the instance used on after its block
UowCallsNext ==
    \/ UowNext
    \/ LateCommit
    \/ LateRollback
    \/ Reenter

(***************************************************************************)
(* The ModuleBase registry (infrastructure/database/base.py).  A dict is a  *)
(* sequence of [key, value] entries with distinct keys, in insertion order; *)
(* a ModuleBase is an object on a heap, named by its position there.  A     *)
(* table of a module's metadata carries the schema of that metadata.        *)
(***************************************************************************)
\* `k in d`
Has(d, k) == \E i \in DOMAIN d : d[i].key = k

\* `d[k]`
Get(d, k) == d[CHOOSE i \in DOMAIN d : d[i].key = k].value

\* `d[k] = v`: replaces the value of an existing key, else appends the entry
Put(d, k, v) ==
    IF Has(d, k)
    THEN [i \in DOMAIN d |-> IF d[i].key = k THEN [key |-> k, value |-> v]
                                             ELSE d[i]]
    ELSE Append(d, [key |-> k, value |-> v])

\* ModuleBase(module_name, schema_name): a fresh declarative base whose
\* metadata has the schema and no table yet
ModuleBase(n, sn) == [module_name |-> n, schema_name |-> sn, tables |-> {}]

\* a registration that builds a new ModuleBase on every call
register_module_base_replaces(d, heap, n, sn) ==
    LET heap2 == Append(heap, ModuleBase(n, sn))
        d2 == Put(d, n, Len(heap2))
    IN  [bases |-> d2, objects |-> heap2, ret |-> Get(d2, n)]

\* register_module_base(module_name, schema_name)
register_module_base(d, heap, n, sn) ==
    LET absent == ~Has(d, n)
        heap2 == IF absent THEN Append(heap, ModuleBase(n, sn)) ELSE heap
        d2 == IF absent THEN Put(d, n, Len(heap2)) ELSE d
    IN  [bases |-> d2, objects |-> heap2, ret |-> Get(d2, n)]

\* get_module_base(module_name)
get_module_base(d, n) ==
    IF ~Has(d, n) THEN Raise("KeyError") ELSE Return(Get(d, n))

\* the key of a table in a MetaData: schema-qualified name
TableKey(t) == <<t.schema, t.name>>

\* Table.tometadata(metadata): a copy of the table is added unless the
\* metadata already holds a table with that key
tometadata(t, md) ==
    IF \E u \in md : TableKey(u) = TableKey(t) THEN md ELSE md \cup {t}

\* for table in metadata.tables.values(): table.tometadata(md)
RECURSIVE CopyTables(_, _)
CopyTables(ts, md) ==
    IF ts = {} THEN md
    ELSE LET t == CHOOSE u \in ts : TRUE
         IN  CopyTables(ts \ {t}, tometadata(t, md))

\* for module_name, module_base in MODULE_BASES.items(): ...
RECURSIVE CopyModules(_, _, _, _)
CopyModules(d, heap, i, md) ==
    IF i > Len(d) THEN md
    ELSE CopyModules(d, heap, i + 1, CopyTables(heap[d[i].value].tables, md))

\* a merge that stops after the first registered module
get_combined_metadata_first_only(d, heap) ==
    [bases |-> d, objects |-> heap,
     ret |-> IF d = <<>> THEN {} ELSE CopyTables(heap[d[1].value].tables, {})]

\* get_combined_metadata(): the returned metadata, and the registry and the
\* objects as the call leaves them
get_combined_metadata(d, heap) ==
    [bases |-> d, objects |-> heap, ret |-> CopyModules(d, heap, 1, {})]

NoRegCall == [op |-> "none", name |-> 0, schema |-> 0, repeat |-> FALSE,
              ret |-> Return(NoBase)]

RegStep ==
    /\ nRegOps < MaxRegOps
    /\ nRegOps' = nRegOps + 1
    /\ before' = [bases |-> MODULE_BASES, objects |-> objects]

\* how the interpreter finds the packages: "root", the repository root on
\* sys.path (packages under `src.`); "src", src/ itself on sys.path
\* (packages top level); "both", the two directories on sys.path;
\* "aliased", both names bound to the same packages
Layouts == {"root", "src", "both", "aliased"}

\* the layouts scripts/seed.py and the seed runner run in: seed.py puts the
\* repository root on sys.path before its imports, and seed_runner.py
\* imports `..database.connection`, which needs the package above it
ScriptLayouts == Layouts \ {"src"}

\* the import of a module's models.py of the repository.  Its line
\* `from infrastructure.database.base import register_module_base` finds no
\* top-level `infrastructure` from the root (ModuleNotFoundError); with src/
\* on sys.path the package is found and its connection.py imports
\* `...config.settings` beyond the top-level package (ImportError); where
\* both names are bound to the same packages, `settings.MODULE_SCHEMAS[...]`
\* raises AttributeError, Settings having no such field.
\* register_module_base is not reached.
import_models(layout) ==
    CASE layout = "root" -> Raise("ModuleNotFoundError")
      [] layout \in {"src", "both"} -> Raise("ImportError")
      [] layout = "aliased" -> Raise("AttributeError")

\* `import ...persistence.models` of module n: it raises and MODULE_BASES is
\* as before
ImportModels(n, layout) ==
    /\ RegStep
    /\ regCall' = [op |-> "import_models", name |-> n, schema |-> 0,
                   repeat |-> FALSE, ret |-> import_models(layout)]
    /\ UNCHANGED <<MODULE_BASES, objects, firstBase, firstSchema, combined>>
    /\ UNCHANGED notReg

\* module_base = register_module_base(name, schema), called as the function
\* documents it (the models.py of the repository never get to their call,
\* see ImportModels)
Register(n, sn) ==
    /\ RegStep
    /\ LET r == register_module_base(MODULE_BASES, objects, n, sn)
       IN  /\ MODULE_BASES' = r.bases
           /\ objects' = r.objects
           /\ regCall' = [op |-> "register", name |-> n, schema |-> sn,
                          repeat |-> Has(MODULE_BASES, n), ret |-> Return(r.ret)]
           /\ firstBase' = IF firstBase[n] = NoBase
                           THEN [firstBase EXCEPT ![n] = r.ret] ELSE firstBase
           /\ firstSchema' = IF firstBase[n] = NoBase
                             THEN [firstSchema EXCEPT ![n] = sn] ELSE firstSchema
    /\ UNCHANGED combined
    /\ UNCHANGED notReg

\* get_module_base(name)
GetModuleBase(n) ==
    /\ RegStep
    /\ regCall' = [op |-> "get", name |-> n, schema |-> 0, repeat |-> FALSE,
                   ret |-> get_module_base(MODULE_BASES, n)]
    /\ UNCHANGED <<MODULE_BASES, objects, firstBase, firstSchema, combined>>
    /\ UNCHANGED notReg

\* class XModel(module_base.BaseModel): __tablename__ = tn -- the table is
\* created in the metadata of object b under the metadata's schema
DefineTable(b, tn) ==
    /\ RegStep
    /\ b \in DOMAIN objects
    /\ \A t \in objects[b].tables : t.name # tn
    /\ objects' = [objects EXCEPT ![b].tables =
                      @ \cup {[schema |-> objects[b].schema_name, name |-> tn,
                               base |-> b]}]
    /\ regCall' = [op |-> "define", name |-> objects[b].module_name,
                   schema |-> objects[b].schema_name, repeat |-> FALSE,
                   ret |-> Return(b)]
    /\ UNCHANGED <<MODULE_BASES, firstBase, firstSchema, combined>>
    /\ UNCHANGED notReg

\* get_combined_metadata(), and the same loop of alembic/env.py
GetCombined ==
    /\ RegStep
    /\ LET r == get_combined_metadata(MODULE_BASES, objects)
       IN  /\ MODULE_BASES' = r.bases
           /\ objects' = r.objects
           /\ combined' = r.ret
    /\ regCall' = [op |-> "combined", name |-> 0, schema |-> 0,
                   repeat |-> FALSE, ret |-> Return(NoBase)]
    /\ UNCHANGED <<firstBase, firstSchema>>
    /\ UNCHANGED notReg

RegInit ==
    /\ MODULE_BASES = <<>>
    /\ objects = <<>>
    /\ firstBase = [n \in ModuleNames |-> NoBase]
    /\ firstSchema = [n \in ModuleNames |-> 0]
    /\ regCall = NoRegCall
    /\ combined = {}
    /\ before = [bases |-> <<>>, objects |-> <<>>]
    /\ nRegOps = 0

RegNext ==
    \/ \E n \in ModuleNames, layout \in Layouts : ImportModels(n, layout)
    \/ \E n \in ModuleNames, sn \in SchemaNames : Register(n, sn)
    \/ \E n \in ModuleNames : GetModuleBase(n)
    \/ \E b \in 1..MaxRegOps, tn \in TableNames : DefineTable(b, tn)
    \/ GetCombined

(***************************************************************************)
(* The user repository and UserService over the users table, called one    *)
(* after the other through one session (one transaction).  A row and an    *)
(* entity carry id, email, username, is_active and is_deleted.  The table  *)
(* has a primary key on id and unique constraints on email and on          *)
(* username.                                                               *)
(***************************************************************************)
\* str.lower()
lower(str) == [str EXCEPT !.upper = FALSE]

\* Email(value).value: the address lower-cased
EmailValue(str) == lower(str)

\* UserCreateDTO.validate_username: returns v.lower()
validate_username(v) == lower(v)

\* UserCreateDTO(email=..., username=...)
UserCreateDTO(e, u) == [email |-> e, username |-> validate_username(u)]

\* UserRepository._to_entity(model)
to_entity(row) ==
    [id |-> row.id, email |-> EmailValue(row.email), username |-> row.username,
     is_active |-> row.is_active, is_deleted |-> row.is_deleted]

\* UserRepository._to_model(entity)
to_model(entity) ==
    [id |-> entity.id, email |-> entity.email, username |-> entity.username,
     is_active |-> entity.is_active, is_deleted |-> entity.is_deleted]

\* result.scalar_one_or_none() turned into an entity
scalar_one_or_none(rows) ==
    IF rows = {} THEN NoUser ELSE to_entity(CHOOSE r \in rows : TRUE)

\* BaseRepository.get_by_id(id)
get_by_id(T, id) ==
    scalar_one_or_none({r \in T : r.id = id /\ r.is_deleted = FALSE})

\* BaseRepository.exists(id)
exists(T, id) ==
    Cardinality({r \in T : r.id = id /\ r.is_deleted = FALSE}) > 0

\* BaseRepository.get_all(include_deleted=...), below the page limit
get_all(T, include_deleted) ==
    {to_entity(r) : r \in {q \in T : include_deleted \/ q.is_deleted = FALSE}}

\* BaseRepository.count(include_deleted=...)
count(T, include_deleted) ==
    Cardinality({r \in T : include_deleted \/ r.is_deleted = FALSE})

\* filters of find_by_criteria: none, or one column and its value
Criteria ==
    {[field |-> "none", value |-> NoString]}
    \cup {[field |-> "email", value |-> e] : e \in EmailStrings}
    \cup {[field |-> "username", value |-> u] : u \in UsernameStrings}

\* BaseRepository.find_by_criteria(filters), below the page limit
find_by_criteria(T, f) ==
    {to_entity(r) : r \in {q \in T :
        /\ q.is_deleted = FALSE
        /\ f.field = "email" => q.email = f.value
        /\ f.field = "username" => q.username = f.value}}

\* column.ilike(f"%{search_term}%"): the term is a part of the column's
\* value, letter case aside
ilike(value, search_term) ==
    \E i \in 0..(Len(value.text) - Len(search_term.text)) :
        SubSeq(value.text, i + 1, i + Len(search_term.text))
            = search_term.text

\* BaseRepository.search(search_term, search_fields), below the page limit:
\* the rows not deleted for which one of the fields that are attributes of
\* the model class holds the term; with no such field, every row not
\* deleted
search(T, search_term, search_fields) ==
    LET columns == search_fields \cap {"email", "username"}
    IN  {to_entity(r) : r \in {q \in T :
            /\ q.is_deleted = FALSE
            /\ columns # {} =>
                  \E c \in columns : ilike(q[c], search_term)}}

\* UserRepository.get_by_email(email)
get_by_email(T, email) ==
    scalar_one_or_none({r \in T : r.email = lower(email)
                                  /\ r.is_deleted = FALSE})

\* UserRepository.get_by_username(username)
get_by_username(T, username) ==
    scalar_one_or_none({r \in T : r.username = lower(username)
                                  /\ r.is_deleted = FALSE})

\* the row breaks the primary key or a unique constraint against `others`
Violates(others, row) ==
    \E r \in others :
        r.id = row.id \/ r.email = row.email \/ r.username = row.username

\* BaseRepository.add(entity): INSERT at flush
add(T, entity) ==
    IF Violates(T, to_model(entity))
    THEN Raise("IntegrityError")
    ELSE Return(T \cup {to_model(entity)})

\* BaseRepository.update(entity): session.merge loads the row by primary key
\* and copies every column of the entity's model onto it (INSERT when no row
\* has the key); UPDATE at flush
update(T, entity) ==
    LET others == {r \in T : r.id # entity.id}
    IN  IF Violates(others, to_model(entity))
        THEN Raise("IntegrityError")
        ELSE Return(others \cup {to_model(entity)})

\* BaseRepository.delete(id, soft)
delete(T, id, soft) ==
    IF soft
    THEN {IF r.id = id THEN [r EXCEPT !.is_deleted = TRUE] ELSE r : r \in T}
    ELSE {r \in T : r.id # id}

\* BaseRepository.add_many(entities): session.add_all(models) and one flush,
\* which INSERTs them all or raises on the first key or unique violation,
\* against the table or among the new rows
add_many(T, entities) ==
    LET models == [i \in DOMAIN entities |-> to_model(entities[i])]
    IN  IF \E i \in DOMAIN models :
               \/ Violates(T, models[i])
               \/ Violates({models[j] : j \in DOMAIN models \ {i}}, models[i])
        THEN Raise("IntegrityError")
        ELSE Return(T \cup {models[i] : i \in DOMAIN models})

\* BaseRepository.delete_many(ids, soft): one UPDATE or DELETE
\* `WHERE id IN ids`; it returns result.rowcount, the rows the statement
\* matched (rows already soft-deleted included)
delete_many(T, ids, soft) ==
    [table |-> IF soft
               THEN {IF r.id \in ids THEN [r EXCEPT !.is_deleted = TRUE] ELSE r :
                       r \in T}
               ELSE {r \in T : r.id \notin ids},
     res |-> Return(Cardinality({r \in T : r.id \in ids}))]

\* User.create(email, username, ...) with the uuid4 it draws
User_create(id, email, username) ==
    [id |-> id, email |-> EmailValue(email), username |-> username,
     is_active |-> TRUE, is_deleted |-> FALSE]

\* a creation that checks the e-mail address only
create_user_email_only(T, id, dto) ==
    IF get_by_email(T, dto.email) # NoUser
    THEN [table |-> T, res |-> Raise("ConflictException")]
    ELSE LET a == add(T, User_create(id, dto.email, dto.username))
         IN  IF "raised" \in DOMAIN a
             THEN [table |-> T, res |-> a]
             ELSE [table |-> a.value, res |-> Return(id)]

\* UserService.create_user(dto): the table it leaves and what it returns or
\* raises
create_user(T, id, dto) ==
    IF get_by_email(T, dto.email) # NoUser
    THEN [table |-> T, res |-> Raise("ConflictException")]
    ELSE IF get_by_username(T, dto.username) # NoUser
    THEN [table |-> T, res |-> Raise("ConflictException")]
    ELSE LET a == add(T, User_create(id, dto.email, dto.username))
         IN  IF "raised" \in DOMAIN a
             THEN [table |-> T, res |-> a]
             ELSE [table |-> a.value, res |-> Return(id)]

\* UserService.update_user_email(user_id, dto)
update_user_email(T, id, email) ==
    LET user == get_by_id(T, id)
        existing == get_by_email(T, email)
    IN  IF user = NoUser
        THEN [table |-> T, res |-> Raise("NotFoundException")]
        ELSE IF existing # NoUser /\ existing.id # id
        THEN [table |-> T, res |-> Raise("ConflictException")]
        ELSE LET a == update(T, [user EXCEPT !.email = EmailValue(email)])
             IN  IF "raised" \in DOMAIN a
                 THEN [table |-> T, res |-> a]
                 ELSE [table |-> a.value, res |-> Return(id)]

\* UserService.delete_user(user_id)
delete_user(T, id) ==
    IF ~exists(T, id)
    THEN [table |-> T, res |-> Raise("NotFoundException")]
    ELSE [table |-> delete(T, id, TRUE), res |-> Return(id)]

NoRepoCall ==
    [op |-> "none", id |-> 0, email |-> NoString, username |-> NoString, soft |-> FALSE,
     res |-> Return(0)]

\* a call is made: the session is usable, and the table it starts from is
\* remembered
RepoStep ==
    /\ ~broken
    /\ nRepoOps < MaxRepoOps
    /\ nRepoOps' = nRepoOps + 1
    /\ usersBefore' = users

\* a database error aborts the transaction of the session
Outcome(o) ==
    /\ users' = o.table
    /\ broken' = (o.res = Raise("IntegrityError"))

\* await service.create_user(UserCreateDTO(email=e, username=u, ...))
CreateUser(e, u) ==
    /\ RepoStep
    /\ LET o == create_user(users, nextId + 1, UserCreateDTO(e, u))
       IN  /\ Outcome(o)
           /\ nextId' = IF o.table # users THEN nextId + 1 ELSE nextId
           /\ repoCall' = [op |-> "create_user", id |-> nextId + 1,
                           email |-> e, username |-> u, soft |-> FALSE,
                           res |-> o.res]
    /\ UNCHANGED <<held, softDeleted>>
    /\ UNCHANGED notRepo

\* user = await repository.get_by_id(id): the caller keeps the entity
GetById(id) ==
    /\ RepoStep
    /\ LET user == get_by_id(users, id)
       IN  /\ held' = IF user = NoUser THEN held ELSE [held EXCEPT ![id] = user]
           /\ repoCall' = [op |-> "get_by_id", id |-> id, email |-> NoString,
                           username |-> NoString, soft |-> FALSE, res |-> Return(user)]
    /\ UNCHANGED <<users, nextId, softDeleted, broken>>
    /\ UNCHANGED notRepo

\* await repository.update(user) with an entity the caller holds
Update(id) ==
    /\ RepoStep
    /\ held[id] # NoUser
    /\ LET a == update(users, held[id])
       IN  /\ Outcome([table |-> IF "raised" \in DOMAIN a THEN users
                                 ELSE a.value,
                       res |-> a])
           /\ repoCall' = [op |-> "update", id |-> id, email |-> NoString,
                           username |-> NoString, soft |-> FALSE,
                           res |-> IF "raised" \in DOMAIN a THEN a
                                   ELSE Return(id)]
    /\ UNCHANGED <<nextId, held, softDeleted>>
    /\ UNCHANGED notRepo

\* await repository.delete(id, soft=soft)
Delete(id, soft) ==
    /\ RepoStep
    /\ Outcome([table |-> delete(users, id, soft), res |-> Return(id)])
    /\ softDeleted' = IF \E r \in users : r.id = id
                      THEN IF soft THEN softDeleted \cup {id}
                           ELSE softDeleted \ {id}
                      ELSE softDeleted
    /\ repoCall' = [op |-> "delete", id |-> id, email |-> NoString, username |-> NoString,
                    soft |-> soft, res |-> Return(id)]
    /\ UNCHANGED <<nextId, held>>
    /\ UNCHANGED notRepo

\* await repository.add_many([User.create(...), ...]) with the new users of
\* `news`, a list of (email, username)
AddMany(news) ==
    /\ RepoStep
    /\ nextId + Len(news) <= MaxRepoOps
    /\ LET entities == [i \in DOMAIN news |->
                           User_create(nextId + i, news[i].email,
                                       news[i].username)]
           a == add_many(users, entities)
       IN  /\ Outcome([table |-> IF "raised" \in DOMAIN a THEN users
                                 ELSE a.value,
                       res |-> a])
           /\ nextId' = IF "raised" \in DOMAIN a THEN nextId
                        ELSE nextId + Len(news)
           /\ repoCall' = [op |-> "add_many", id |-> 0, email |-> NoString,
                           username |-> NoString, soft |-> FALSE,
                           res |-> IF "raised" \in DOMAIN a THEN a
                                   ELSE Return(Len(news))]
    /\ UNCHANGED <<held, softDeleted>>
    /\ UNCHANGED notRepo

\* await repository.delete_many(ids, soft=soft)
DeleteMany(ids, soft) ==
    /\ RepoStep
    /\ LET o == delete_many(users, ids, soft)
           found == {r.id : r \in {q \in users : q.id \in ids}}
       IN  /\ Outcome(o)
           /\ softDeleted' = IF soft THEN softDeleted \cup found
                             ELSE softDeleted \ found
           /\ repoCall' = [op |-> "delete_many", id |-> 0, email |-> NoString,
                           username |-> NoString, soft |-> soft, res |-> o.res]
    /\ UNCHANGED <<nextId, held>>
    /\ UNCHANGED notRepo

\* await service.delete_user(id)
DeleteUser(id) ==
    /\ RepoStep
    /\ LET o == delete_user(users, id)
       IN  /\ Outcome(o)
           /\ softDeleted' = IF o.res = Return(id) THEN softDeleted \cup {id}
                             ELSE softDeleted
           /\ repoCall' = [op |-> "delete_user", id |-> id, email |-> NoString,
                           username |-> NoString, soft |-> TRUE, res |-> o.res]
    /\ UNCHANGED <<nextId, held>>
    /\ UNCHANGED notRepo

\* await service.update_user_email(id, UserEmailUpdateDTO(email=e))
UpdateUserEmail(id, e) ==
    /\ RepoStep
    /\ LET o == update_user_email(users, id, e)
       IN  /\ Outcome(o)
           /\ repoCall' = [op |-> "update_user_email", id |-> id, email |-> e,
                           username |-> NoString, soft |-> FALSE, res |-> o.res]
    /\ UNCHANGED <<nextId, held, softDeleted>>
    /\ UNCHANGED notRepo

RepoInit ==
    /\ users = {}
    /\ nextId = 0
    /\ held = [id \in UserIds |-> NoUser]
    /\ softDeleted = {}
    /\ repoCall = NoRepoCall
    /\ usersBefore = {}
    /\ broken = FALSE
    /\ nRepoOps = 0

RepoNext ==
    \/ \E e \in EmailStrings, u \in UsernameStrings : CreateUser(e, u)
    \/ \E id \in UserIds : GetById(id)
    \/ \E id \in UserIds : Update(id)
    \/ \E id \in UserIds, soft \in BOOLEAN : Delete(id, soft)
    \/ \E news \in NewUserLists : AddMany(news)
    \/ \E ids \in SUBSET UserIds, soft \in BOOLEAN : DeleteMany(ids, soft)
    \/ \E id \in UserIds : DeleteUser(id)
    \/ \E id \in UserIds, e \in EmailStrings : UpdateUserEmail(id, e)

(***************************************************************************)
(* Exceptions and the centralized handlers (core/exceptions,               *)
(* shared/api/error_handler.py, bootstrapper/app_factory.py).  An          *)
(* exception is an object of a class; the handler that answers it is the   *)
(* one registered for the first class of its MRO that has a handler.       *)
(***************************************************************************)
\* the application exception classes with a constructor of their own
AppClasses ==
    {"NotFoundException", "ConflictException", "ValidationException",
     "ForbiddenException", "UnauthorizedException", "BadRequestException",
     "InternalServerException", "DomainException"}

\* domain exceptions of the modules; each calls DomainException.__init__
DomainClasses ==
    {"InvalidEmailException", "InvalidUserStateException",
     "FileSizeLimitExceededException", "FileAccessDeniedException"}

\* exceptions of the database layer
DatabaseClasses == {"SQLAlchemyError", "IntegrityError"}

\* the status codes BaseController.error is called with (its default, and
\* the one of the user controller)
ControllerStatuses == {400, 404}

\* other exceptions a route can raise
OtherClasses == {"RequestValidationError", "HTTPException", "ValueError",
                 "NotImplementedError"}

ExceptionClasses ==
    AppClasses \cup DomainClasses \cup DatabaseClasses \cup OtherClasses

\* the base class of a class ("object" ends the MRO)
BaseOf(cls) ==
    IF cls \in AppClasses THEN "BaseException"
    ELSE IF cls \in DomainClasses THEN "DomainException"
    ELSE IF cls = "IntegrityError" THEN "SQLAlchemyError"
    ELSE IF cls = "Exception" THEN "object"
    ELSE "Exception"

\* status_code and error_code each constructor passes to
\* BaseException.__init__
AppInit(cls) ==
    CASE cls = "DomainException" ->
            [status_code |-> 422, error_code |-> "DOMAIN_VALIDATION_ERROR"]
      [] cls = "NotFoundException" ->
            [status_code |-> 404, error_code |-> "NOT_FOUND"]
      [] cls = "ValidationException" ->
            [status_code |-> 422, error_code |-> "VALIDATION_ERROR"]
      [] cls = "ConflictException" ->
            [status_code |-> 409, error_code |-> "CONFLICT"]
      [] cls = "UnauthorizedException" ->
            [status_code |-> 401, error_code |-> "UNAUTHORIZED"]
      [] cls = "ForbiddenException" ->
            [status_code |-> 403, error_code |-> "FORBIDDEN"]
      [] cls = "BadRequestException" ->
            [status_code |-> 400, error_code |-> "BAD_REQUEST"]
      [] cls = "InternalServerException" ->
            [status_code |-> 500, error_code |-> "INTERNAL_SERVER_ERROR"]

\* the exception object `cls(...)`: an application exception gets its
\* attributes from its constructor, an HTTPException the status it is given
NewException(cls, status) ==
    IF cls \in AppClasses
    THEN [cls |-> cls, status_code |-> AppInit(cls).status_code,
          error_code |-> AppInit(cls).error_code]
    ELSE IF cls \in DomainClasses
    THEN [cls |-> cls, status_code |-> AppInit("DomainException").status_code,
          error_code |-> AppInit("DomainException").error_code]
    ELSE IF cls = "HTTPException"
    THEN [cls |-> cls, status_code |-> status, error_code |-> "none"]
    ELSE [cls |-> cls, status_code |-> 0, error_code |-> "none"]

\* BaseException.to_dict()
to_dict(ex) == [error |-> [code |-> ex.error_code]]

\* a handler that answers every application exception with 500
app_exception_handler_500(ex) ==
    [handler |-> "app_exception_handler", status_code |-> 500,
     content |-> to_dict(ex)]

\* app_exception_handler(request, exc)
app_exception_handler(ex) ==
    [handler |-> "app_exception_handler", status_code |-> ex.status_code,
     content |-> to_dict(ex)]

\* validation_exception_handler(request, exc)
validation_exception_handler(ex) ==
    [handler |-> "validation_exception_handler", status_code |-> 422,
     content |-> [success |-> FALSE, error |-> [code |-> "VALIDATION_ERROR"]]]

\* database_exception_handler(request, exc)
database_exception_handler(ex) ==
    [handler |-> "database_exception_handler", status_code |-> 500,
     content |-> [success |-> FALSE, error |-> [code |-> "DATABASE_ERROR"]]]

\* generic_exception_handler(request, exc)
generic_exception_handler(ex) ==
    [handler |-> "generic_exception_handler", status_code |-> 500,
     content |-> [success |-> FALSE,
                  error |-> [code |-> "INTERNAL_SERVER_ERROR"]]]

\* the handler FastAPI installs for HTTPException: the status and the detail
\* the exception carries
http_exception_handler(ex) ==
    [handler |-> "http_exception_handler", status_code |-> ex.status_code,
     content |-> [detail |-> [success |-> FALSE]]]

\* the classes _add_exception_handlers registers a handler for, and the one
\* FastAPI registers by default
Registered ==
    {"BaseException", "RequestValidationError", "SQLAlchemyError",
     "Exception", "HTTPException"}

\* the lookup of the handler: the first class of the MRO that is registered
RECURSIVE HandlerClass(_)
HandlerClass(cls) ==
    IF cls \in Registered THEN cls ELSE HandlerClass(BaseOf(cls))

\* the response the application sends for an exception that leaves a route
respond(ex) ==
    LET h == HandlerClass(ex.cls)
    IN  CASE h = "BaseException" -> app_exception_handler(ex)
          [] h = "RequestValidationError" -> validation_exception_handler(ex)
          [] h = "SQLAlchemyError" -> database_exception_handler(ex)
          [] h = "HTTPException" -> http_exception_handler(ex)
          [] h = "Exception" -> generic_exception_handler(ex)

NoException == [cls |-> "none", status_code |-> 0, error_code |-> "none"]

\* a route raises: `raise cls(...)`, or BaseController.error(..., status)
RouteRaises(cls, status) ==
    /\ raised = NoException
    /\ Len(responses) < MaxRequests
    /\ cls = "HTTPException" \/ status = 400
    /\ raised' = NewException(cls, status)
    /\ UNCHANGED responses
    /\ UNCHANGED notErr

\* the application answers the request
Answer ==
    /\ raised # NoException
    /\ responses' = Append(responses, [exc |-> raised, resp |-> respond(raised)])
    /\ raised' = NoException
    /\ UNCHANGED notErr

ErrInit ==
    /\ raised = NoException
    /\ responses = <<>>

ErrNext ==
    \/ \E cls \in ExceptionClasses, status \in ControllerStatuses :
          RouteRaises(cls, status)
    \/ Answer

(***************************************************************************)
(* The Email value object and the User aggregate                           *)
(* (modules/user_management/domain).  A raw address is its text up to      *)
(* letter case and padding, whether it has upper-case letters, the         *)
(* whitespace around it, and whether the text between the whitespace has   *)
(* the form local@domain.tld.                                              *)
(***************************************************************************)
\* whitespace around an address: none, two spaces in front, two spaces
\* behind, two spaces on both sides, or one newline behind
Pads == {"none", "leading", "trailing", "both", "newline"}

\* the number of characters a padding adds
PadLen(pad) ==
    CASE pad = "none" -> 0
      [] pad = "newline" -> 1
      [] pad = "both" -> 4
      [] OTHER -> 2

\* the longest value Email._is_valid accepts
MAX_EMAIL_LENGTH == 254

\* the lengths of the addresses tried: that of "test@example.com", the
\* limit, and one above it
EmailLengths == {16, MAX_EMAIL_LENGTH, MAX_EMAIL_LENGTH + 1}

\* a string handed to Email: the address `text` of `len` characters, in
\* upper or lower case, of the form local@domain.tld or not, with its padding
RawEmails ==
    [text : 1..NumEmails, upper : BOOLEAN, pad : Pads, formed : BOOLEAN,
     len : EmailLengths]

\* len(value): the characters of the address and of its padding
strlen(str) == str.len + PadLen(str.pad)

\* str.strip()
strip(str) == [str EXCEPT !.pad = "none"]

\* Email._is_valid(value): False for an empty value and for one of more than
\* 254 characters, padding counted; else EMAIL_REGEX.match on the value as
\* given: `^` lets no whitespace in front, `$` lets one newline behind
is_valid(raw) ==
    /\ strlen(raw) > 0
    /\ strlen(raw) <= MAX_EMAIL_LENGTH
    /\ raw.formed
    /\ raw.pad \in {"none", "newline"}

\* Email(value): raises InvalidEmailException, or holds value.lower().strip()
Email(raw) ==
    IF ~is_valid(raw) THEN Raise("InvalidEmailException")
    ELSE Return(strip(lower(raw)))

Names == 1..NumNames

NoUserObject == [made |-> FALSE]

\* User(email, ..., is_active): BaseEntity / AggregateRoot / User __init__
User_init(email, name, active) ==
    [email |-> email, first_name |-> name, is_active |-> active,
     domain_events |-> <<>>]

\* AggregateRoot.add_domain_event(event)
add_domain_event(u, event) ==
    [u EXCEPT !.domain_events = Append(@, event)]

\* AggregateRoot.clear_domain_events()
clear_domain_events(u) == [u EXCEPT !.domain_events = <<>>]

\* User.create(email, username, first_name, last_name): the object, or the
\* exception of Email
UserCreate(raw, name) ==
    LET e == Email(raw)
    IN  IF "raised" \in DOMAIN e THEN [obj |-> NoUserObject, res |-> e]
        ELSE [obj |-> add_domain_event(User_init(e.value, name, TRUE),
                                       "UserCreatedEvent"),
              res |-> Return("User")]

\* User.update_profile(first_name, last_name)
update_profile(u, name) ==
    [obj |-> add_domain_event([u EXCEPT !.first_name = name],
                              "UserUpdatedEvent"),
     res |-> Return("None")]

\* User.change_email(new_email)
change_email(u, raw) ==
    LET e == Email(raw)
    IN  IF "raised" \in DOMAIN e THEN [obj |-> u, res |-> e]
        ELSE [obj |-> add_domain_event([u EXCEPT !.email = e.value],
                                       "UserUpdatedEvent"),
              res |-> Return("None")]

\* a deactivation without the state check
deactivate_unchecked(u) ==
    [obj |-> add_domain_event([u EXCEPT !.is_active = FALSE],
                              "UserDeactivatedEvent"),
     res |-> Return("None")]

\* User.deactivate()
deactivate(u) ==
    IF ~u.is_active
    THEN [obj |-> u, res |-> Raise("InvalidUserStateException")]
    ELSE [obj |-> add_domain_event([u EXCEPT !.is_active = FALSE],
                                   "UserDeactivatedEvent"),
          res |-> Return("None")]

\* an activation that records no event
activate_silent(u) ==
    IF u.is_active
    THEN [obj |-> u, res |-> Raise("InvalidUserStateException")]
    ELSE [obj |-> [u EXCEPT !.is_active = TRUE], res |-> Return("None")]

\* User.activate()
activate(u) ==
    IF u.is_active
    THEN [obj |-> u, res |-> Raise("InvalidUserStateException")]
    ELSE [obj |-> add_domain_event([u EXCEPT !.is_active = TRUE],
                                   "UserActivatedEvent"),
          res |-> Return("None")]

\* the events a caller hands to add_domain_event
CallerEvents == {"DomainEvent"}

\* the address argument of a call that takes none
NoRaw ==
    [text |-> 0, upper |-> FALSE, pad |-> "none", formed |-> FALSE, len |-> 0]

NoUserCall == [op |-> "none", raw |-> NoRaw, res |-> Return("None")]

\* a call on the object
UserStep ==
    /\ nUserOps < MaxUserOps
    /\ nUserOps' = nUserOps + 1
    /\ userBefore' = aUser

\* the object after a call, and the count of successful mutating calls
UserOutcome(name, raw, o) ==
    /\ aUser' = o.obj
    /\ userCall' = [op |-> name, raw |-> raw, res |-> o.res]
    /\ nSuccess' = IF "raised" \in DOMAIN o.res THEN nSuccess ELSE nSuccess + 1

\* user = User.create(email=raw, ...)
Create(raw, name) ==
    /\ made = "none"
    /\ UserStep
    /\ LET o == UserCreate(raw, name)
       IN  /\ aUser' = o.obj
           /\ userCall' = [op |-> "create", raw |-> raw, res |-> o.res]
           /\ made' = IF "raised" \in DOMAIN o.res THEN "none" ELSE "create"
    /\ UNCHANGED <<nSuccess, cleared, nAdded>>
    /\ UNCHANGED notUser

\* user = User(email=Email(model.email), ..., is_active=model.is_active), as
\* UserRepository._to_entity builds it from a stored row
Construct(text, name, active) ==
    /\ made = "none"
    /\ UserStep
    /\ aUser' = User_init([text |-> text, upper |-> FALSE, pad |-> "none",
                          formed |-> TRUE, len |-> 16],
                         name, active)
    /\ userCall' = [op |-> "init", raw |-> NoRaw, res |-> Return("User")]
    /\ made' = "init"
    /\ UNCHANGED <<nSuccess, cleared, nAdded>>
    /\ UNCHANGED notUser

\* user.update_profile(name, ...)
UpdateProfile(name) ==
    /\ made # "none"
    /\ UserStep
    /\ UserOutcome("update_profile", NoRaw, update_profile(aUser, name))
    /\ UNCHANGED <<made, cleared, nAdded>>
    /\ UNCHANGED notUser

\* user.change_email(raw)
ChangeEmail(raw) ==
    /\ made # "none"
    /\ UserStep
    /\ UserOutcome("change_email", raw, change_email(aUser, raw))
    /\ UNCHANGED <<made, cleared, nAdded>>
    /\ UNCHANGED notUser

\* user.activate()
Activate ==
    /\ made # "none"
    /\ UserStep
    /\ UserOutcome("activate", NoRaw, activate(aUser))
    /\ UNCHANGED <<made, cleared, nAdded>>
    /\ UNCHANGED notUser

\* user.deactivate()
Deactivate ==
    /\ made # "none"
    /\ UserStep
    /\ UserOutcome("deactivate", NoRaw, deactivate(aUser))
    /\ UNCHANGED <<made, cleared, nAdded>>
    /\ UNCHANGED notUser

\* user.clear_domain_events()
ClearDomainEvents ==
    /\ made # "none"
    /\ UserStep
    /\ aUser' = clear_domain_events(aUser)
    /\ userCall' = [op |-> "clear_domain_events", raw |-> NoRaw,
                    res |-> Return("None")]
    /\ cleared' = TRUE
    /\ UNCHANGED <<made, nSuccess, nAdded>>
    /\ UNCHANGED notUser

\* user.add_domain_event(event), called from outside the class with an event
\* of the caller's: the method is public and looks at nothing
AddDomainEvent(event) ==
    /\ made # "none"
    /\ UserStep
    /\ aUser' = add_domain_event(aUser, event)
    /\ userCall' = [op |-> "add_domain_event", raw |-> NoRaw,
                    res |-> Return("None")]
    /\ nAdded' = nAdded + 1
    /\ UNCHANGED <<made, nSuccess, cleared>>
    /\ UNCHANGED notUser

UserInit ==
    /\ aUser = NoUserObject
    /\ made = "none"
    /\ userCall = NoUserCall
    /\ userBefore = NoUserObject
    /\ nSuccess = 0
    /\ cleared = FALSE
    /\ nAdded = 0
    /\ nUserOps = 0

UserNext ==
    \/ \E raw \in RawEmails, name \in Names : Create(raw, name)
    \/ \E text \in 1..NumEmails, name \in Names, active \in BOOLEAN :
          Construct(text, name, active)
    \/ \E name \in Names : UpdateProfile(name)
    \/ \E raw \in RawEmails : ChangeEmail(raw)
    \/ Activate
    \/ Deactivate
    \/ ClearDomainEvents
    \/ \E event \in CallerEvents : AddDomainEvent(event)

\* create_async_engine(settings.DATABASE_URL, **engine_kwargs): outside
\* testing the pool class is QueuePool, which SQLAlchemy refuses for an
\* asyncio engine (ArgumentError); in testing it is NullPool
create_async_engine(testing, n) ==
    IF testing THEN Return(n + 1) ELSE Raise("ArgumentError")

(***************************************************************************)
(* The seeders (scripts/seed.py, modules/user_management/infrastructure/   *)
(* seeds, infrastructure/seeds/seed_runner.py), run by one script task,    *)
(* await by await, over the committed rows of the database, while users    *)
(* are made and deleted through the API by other processes.  The database  *)
(* is the users table and the rows seeders have committed.                 *)
(***************************************************************************)
SeedKeys == 1..SeedRows
ApiKeys == (SeedRows + 1)..(SeedRows + NumApiUsers)
UserKeys == SeedKeys \cup ApiKeys

EmptyDb == [users |-> [k \in UserKeys |-> "absent"], seeded |-> {}]

\* select(UserModel).limit(1) ... .first(): soft-deleted rows are rows too
UserRows(D) == {k \in UserKeys : D.users[k] # "absent"}

\* a seeder of users that adds its rows without looking at the table
seed_users_inserts(layout) ==
    [writes |-> {[run |-> 0, seeder |-> 0]}, res |-> Return("None")]

\* scripts/seed.py seed_users(session): its first statement imports
\* UserModel and UserProfileModel from the models module, which raises; the
\* query for existing users is not reached and nothing is added
seed_users(layout) == [writes |-> {}, res |-> import_models(layout)]

\* scripts/seed.py seed_files(session): it starts with the import of
\* FileModel, which raises in the same way
seed_files(layout) == [writes |-> {}, res |-> import_models(layout)]

\* modules/user_management/infrastructure/seeds/seed_users.py: the module
\* imports the models at its top, so importing the seeder raises and there is
\* no function to call or to register
module_seed_users(layout) == import_models(layout)

\* infrastructure/seeds/seed_runner.py seed_users(session): it starts with
\* the import of UserRepository, whose module imports top-level `shared`
\* and `infrastructure` packages and then the models: the import raises as
\* that of the models does in each layout (past it, `UserRepository(session)`
\* would raise TypeError, the constructor taking no argument)
example_seed_users(layout) == [writes |-> {}, res |-> import_models(layout)]

\* the seeders of the repository a caller can get hold of, and two seeders
\* of a caller's own: one that adds a row and flushes, one that does so and
\* then raises
RepositorySeeders == {"seed_users", "seed_files", "example_seed_users"}
CallerSeeders == {"adds_row", "adds_row_then_raises"}
SeederNames == RepositorySeeders \cup CallerSeeders \cup {"module_seed_users"}

\* await seeder(session), up to its first await or to its end: the rows it
\* has flushed and what it returned or raised ("flush": it waits for
\* session.flush())
RunSeeder(name, layout) ==
    CASE name = "seed_users" -> seed_users(layout)
      [] name = "seed_files" -> seed_files(layout)
      [] name = "example_seed_users" -> example_seed_users(layout)
      [] OTHER -> [writes |-> {}, res |-> Return("flush")]

\* a caller's seeder after its flush
AfterFlush(name, row) ==
    [writes |-> {row},
     res |-> IF name = "adds_row" THEN Return("None")
             ELSE Raise("ValueError")]

\* SEEDERS of scripts/seed.py
SEEDERS == [user |-> "seed_users", file |-> "seed_files"]

ModuleArgs == {"user", "file", "other"}

NoRun ==
    [pc |-> "idle", op |-> "none", module |-> "none", layout |-> "root",
     idx |-> 0, pending |-> {}, committed |-> FALSE, wrote |-> {},
     failed_count |-> 0, repeat |-> FALSE, initialized |-> FALSE,
     log |-> <<>>, calls |-> <<>>]

NoSeedCall ==
    [op |-> "none", module |-> "none", repeat |-> FALSE,
     initialized |-> FALSE, aborted |-> "no", committed |-> FALSE,
     wrote |-> {}, log |-> <<>>, calls |-> <<>>, res |-> Return("None")]

\* the record of the call `run` that ends with `res`
SeedCallOf(run, res, aborted) ==
    [op |-> run.op, module |-> run.module, repeat |-> run.repeat,
     initialized |-> run.initialized, aborted |-> aborted,
     committed |-> run.committed, wrote |-> run.wrote, log |-> run.log,
     calls |-> run.calls, res |-> res]

\* the script starts a call
SeedStep ==
    /\ seedRun.pc = "idle"
    /\ nSeedOps < MaxSeedOps
    /\ nSeedOps' = nSeedOps + 1

\* a user is created through the API
ApiCreateUser(k) ==
    /\ nSeedOps < MaxSeedOps
    /\ nSeedOps' = nSeedOps + 1
    /\ seedDb.users[k] = "absent"
    /\ seedDb' = [seedDb EXCEPT !.users[k] = "live"]
    /\ UNCHANGED <<dbInitialized, seeders, ran, seedRun, seedCall>>
    /\ UNCHANGED notSeed

\* a user is soft-deleted through the API
ApiDeleteUser(k) ==
    /\ nSeedOps < MaxSeedOps
    /\ nSeedOps' = nSeedOps + 1
    /\ seedDb.users[k] = "live"
    /\ seedDb' = [seedDb EXCEPT !.users[k] = "deleted"]
    /\ UNCHANGED <<dbInitialized, seeders, ran, seedRun, seedCall>>
    /\ UNCHANGED notSeed

\* seed_module(module_name) from its first line to its first await, within
\* the call `run`: False for an unknown module; db.initialize() when needed,
\* whose exception leaves the function; then a session and the seeder, which
\* leaves the call waiting in session.commit() or, having raised, in the
\* session.rollback() of the except clause
seed_module_start(run, initialized, testing, module_name) ==
    IF module_name \notin DOMAIN SEEDERS
    THEN [run |-> run, initialized |-> initialized, res |-> Return("False")]
    ELSE IF ~initialized /\ "raised" \in DOMAIN create_async_engine(testing, 0)
    THEN [run |-> run, initialized |-> FALSE,
          res |-> create_async_engine(testing, 0)]
    ELSE LET s == RunSeeder(SEEDERS[module_name], run.layout)
         IN  [run |-> [run EXCEPT
                         !.pc = IF "raised" \in DOMAIN s.res THEN "rollback"
                                ELSE "commit",
                         !.module = module_name,
                         !.pending = s.writes],
              initialized |-> TRUE, res |-> Return("pending")]

\* seed_module from the await it waits in to its next await or its end:
\* `how` tells how the awaited session call ends.  A commit that raises
\* leads to the rollback of the except clause; everything else leaves the
\* try statement through `finally: break`, which discards the `return True`,
\* the `return False` or the exception in flight, so the function ends
\* without a return value
seed_module_resume(run, how) ==
    IF run.pc = "commit" /\ how = "raised"
    THEN [run |-> [run EXCEPT !.pc = "rollback",
                              !.calls = Append(@, "commit")],
          res |-> Return("pending")]
    ELSE [run |-> [run EXCEPT
                     !.pc = "idle",
                     !.calls = Append(@, run.pc),
                     !.committed = (run.pc = "commit" /\ how = "ok"),
                     !.wrote = IF run.pc = "commit" /\ how = "ok"
                               THEN run.pending ELSE {},
                     !.pending = {}],
          res |-> Return("None")]

\* seed_all_modules(), the return value once the last module is done
seed_all_modules_result(failed_count) ==
    IF failed_count = 0 THEN Return("True") ELSE Return("False")

\* await seed_module(module_name), to its first await
SeedModuleBegin(module_name, layout) ==
    /\ SeedStep
    /\ LET run == [NoRun EXCEPT !.op = "seed_module", !.module = module_name,
                                !.layout = layout,
                                !.repeat = module_name \in ran,
                                !.initialized = dbInitialized]
           o == seed_module_start(run, dbInitialized, is_testing, module_name)
       IN  /\ dbInitialized' = o.initialized
           /\ IF o.res = Return("pending")
              THEN seedRun' = o.run /\ UNCHANGED seedCall
              ELSE /\ seedRun' = NoRun
                   /\ seedCall' = SeedCallOf(run, o.res, "no")
    /\ UNCHANGED <<seedDb, seeders, ran>>
    /\ UNCHANGED notSeed

\* await seed_all_modules(), to its first await: the loop over SEEDERS
\* starts with seed_module("user")
SeedAllModulesBegin(layout) ==
    /\ SeedStep
    /\ LET run == [NoRun EXCEPT !.op = "seed_all_modules", !.module = "user",
                                !.layout = layout, !.idx = 1,
                                !.repeat = "all" \in ran,
                                !.initialized = dbInitialized]
           o == seed_module_start(run, dbInitialized, is_testing, "user")
       IN  /\ dbInitialized' = o.initialized
           /\ IF o.res = Return("pending")
              THEN seedRun' = o.run /\ UNCHANGED seedCall
              ELSE /\ seedRun' = NoRun
                   /\ seedCall' = SeedCallOf(run, o.res, "no")
    /\ UNCHANGED <<seedDb, seeders, ran>>
    /\ UNCHANGED notSeed

\* the session call seed_module waits in ends.  When that ends seed_module,
\* a seed_module call is over; seed_all_modules counts the module as failed
\* (None is not true) and goes on to seed_module("file"), or returns
SeedResume(how) ==
    /\ seedRun.op \in {"seed_module", "seed_all_modules"}
    /\ seedRun.pc \in {"commit", "rollback"}
    /\ LET o == seed_module_resume(seedRun, how)
           done == o.res # Return("pending")
           run == IF done /\ seedRun.op = "seed_all_modules"
                  THEN [o.run EXCEPT !.failed_count = @ + 1]
                  ELSE o.run
       IN  /\ seedDb' = [seedDb EXCEPT !.seeded = @ \cup o.run.wrote]
           /\ IF ~done
              THEN seedRun' = o.run /\ UNCHANGED <<seedCall, ran>>
              ELSE IF seedRun.op = "seed_all_modules" /\ seedRun.idx = 1
              THEN /\ seedRun' =
                        seed_module_start([run EXCEPT !.idx = 2], TRUE,
                                          is_testing, "file").run
                   /\ UNCHANGED <<seedCall, ran>>
              ELSE /\ seedRun' = NoRun
                   /\ seedCall' =
                        SeedCallOf(run,
                                   IF seedRun.op = "seed_module" THEN o.res
                                   ELSE seed_all_modules_result(
                                            run.failed_count),
                                   "no")
                   /\ ran' = ran \cup {IF seedRun.op = "seed_module"
                                       THEN seedRun.module ELSE "all"}
    /\ UNCHANGED <<dbInitialized, seeders, nSeedOps>>
    /\ UNCHANGED notSeed

\* db.initialize(), by the process that uses the runner
SeedInitialize ==
    /\ SeedStep
    /\ ~dbInitialized
    /\ LET e == create_async_engine(is_testing, 0)
       IN  /\ dbInitialized' = ("raised" \notin DOMAIN e)
           /\ seedCall' = [NoSeedCall EXCEPT
                              !.op = "initialize",
                              !.res = IF "raised" \in DOMAIN e THEN e
                                      ELSE Return("None")]
    /\ UNCHANGED <<seedDb, seeders, ran, seedRun>>
    /\ UNCHANGED notSeed

\* await db.close(), as main() of scripts/seed.py does when it is done, up
\* to `await self._engine.dispose()`
SeedCloseBegin ==
    /\ SeedStep
    /\ dbInitialized
    /\ seedRun' = [NoRun EXCEPT !.pc = "dispose", !.op = "close",
                                !.initialized = TRUE]
    /\ UNCHANGED <<seedDb, dbInitialized, seeders, ran, seedCall>>
    /\ UNCHANGED notSeed

\* dispose() ends: the engine and the session factory are cleared when it
\* returned, and stay when it raised
SeedCloseEnd(how) ==
    /\ seedRun.pc = "dispose"
    /\ dbInitialized' = (how # "ok")
    /\ seedRun' = NoRun
    /\ seedCall' = SeedCallOf(seedRun,
                              IF how = "ok" THEN Return("None")
                              ELSE Raise("DisposeError"),
                              "no")
    /\ UNCHANGED <<seedDb, seeders, ran, nSeedOps>>
    /\ UNCHANGED notSeed

\* `from ...seeds.seed_users import seed_users; runner.register_seeder(...)`
\* for the seeder of the user module, whose import raises, and
\* runner.register_seeder(seeder) for the others
RegisterSeeder(name, layout) ==
    /\ seedRun.pc = "idle"
    /\ Len(seeders) < MaxSeeders
    /\ seedCall.op \in {"none", "register_seeder"}
    /\ IF name = "module_seed_users"
       THEN /\ seedCall' = [NoSeedCall EXCEPT
                               !.op = "register_seeder",
                               !.res = module_seed_users(layout)]
            /\ UNCHANGED seeders
       ELSE /\ seeders' = Append(seeders, name)
            /\ seedCall' = [NoSeedCall EXCEPT !.op = "register_seeder"]
    /\ UNCHANGED <<seedDb, dbInitialized, ran, seedRun, nSeedOps>>
    /\ UNCHANGED notSeed

\* the loop of run_all reaches the seeder at position i: the seeder runs to
\* its first await (a caller's seeder waits for its flush) or raises at once
\* (the except clause then waits for session.rollback()); past the last
\* seeder the generator of get_session is resumed and waits for
\* session.close()
run_seeder_at(run, list, i) ==
    IF i > Len(list)
    THEN [run EXCEPT !.pc = "close", !.idx = i]
    ELSE LET s == RunSeeder(list[i], run.layout)
         IN  [run EXCEPT
                !.idx = i,
                !.pending = s.writes,
                !.pc = IF "raised" \in DOMAIN s.res THEN "rollback"
                       ELSE "flush"]

\* a run_all whose loop ends at the first seeder that fails
seeder_failed_stops(run, list) ==
    run_seeder_at([run EXCEPT
                     !.failed_count = @ + 1,
                     !.pending = {},
                     !.calls = Append(@, "rollback"),
                     !.log = Append(@, [seeder |-> list[run.idx],
                                        failed |-> TRUE,
                                        wrote |-> run.pending])],
                  list, Len(list) + 1)

\* the except clause of run_all after its session.rollback() returned: the
\* seeder is counted as failed and the loop goes on
seeder_failed(run, list) ==
    run_seeder_at([run EXCEPT
                     !.failed_count = @ + 1,
                     !.pending = {},
                     !.calls = Append(@, "rollback"),
                     !.log = Append(@, [seeder |-> list[run.idx],
                                        failed |-> TRUE,
                                        wrote |-> run.pending])],
                  list, run.idx + 1)

\* the try clause of run_all after its session.commit() returned
seeder_completed(run, list) ==
    run_seeder_at([run EXCEPT
                     !.pending = {},
                     !.calls = Append(@, "commit"),
                     !.log = Append(@, [seeder |-> list[run.idx],
                                        failed |-> FALSE,
                                        wrote |-> run.pending])],
                  list, run.idx + 1)

\* SeedRunner.run_all(), once its loops are done
run_all_result(failed_count) ==
    IF failed_count > 0 THEN Raise("RuntimeError") ELSE Return("None")

\* await runner.run_all(), to its first await: nothing to do without
\* seeders; get_session raises RuntimeError on a connection that is not
\* initialized; else the first seeder starts
RunAllBegin(layout) ==
    /\ SeedStep
    /\ LET run == [NoRun EXCEPT !.op = "run_all", !.layout = layout,
                                !.initialized = dbInitialized]
       IN  IF seeders = <<>>
           THEN /\ seedCall' = SeedCallOf(run, Return("None"), "no")
                /\ UNCHANGED seedRun
           ELSE IF ~dbInitialized
           THEN /\ seedCall' = SeedCallOf(run, Raise("RuntimeError"), "no")
                /\ UNCHANGED seedRun
           ELSE /\ seedRun' = run_seeder_at(run, seeders, 1)
                /\ UNCHANGED seedCall
    /\ UNCHANGED <<seedDb, dbInitialized, seeders, ran>>
    /\ UNCHANGED notSeed

\* the `await session.flush()` a caller's seeder waits in ends.  It
\* returns, and the seeder returns or raises: run_all waits for
\* session.commit() or for session.rollback(); or it raises, the seeder
\* does not catch the exception and the except clause of run_all waits for
\* session.rollback(); or it ends in asyncio.CancelledError, which neither
\* the seeder nor `except Exception` catches and which leaves run_all
RunFlush(how) ==
    /\ seedRun.op = "run_all"
    /\ seedRun.pc = "flush"
    /\ CASE how = "ok" ->
              /\ LET s == AfterFlush(seeders[seedRun.idx],
                                     [run |-> nSeedOps,
                                      seeder |-> seedRun.idx])
                 IN  seedRun' = [seedRun EXCEPT
                        !.pending = s.writes,
                        !.calls = Append(@, "flush"),
                        !.pc = IF "raised" \in DOMAIN s.res THEN "rollback"
                               ELSE "commit"]
              /\ UNCHANGED seedCall
         [] how = "raised" ->
              /\ seedRun' = [seedRun EXCEPT !.pc = "rollback",
                                            !.calls = Append(@, "flush")]
              /\ UNCHANGED seedCall
         [] how = "cancelled" ->
              /\ seedRun' = NoRun
              /\ seedCall' =
                   SeedCallOf([seedRun EXCEPT
                                 !.calls = Append(@, "flush"),
                                 !.log = Append(@,
                                     [seeder |-> seeders[seedRun.idx],
                                      failed |-> TRUE,
                                      wrote |-> seedRun.pending])],
                              Raise("CancelledError"), "in_seeder")
    /\ UNCHANGED <<seedDb, dbInitialized, seeders, ran, nSeedOps>>
    /\ UNCHANGED notSeed

\* `await session.commit()` of run_all ends: the rows of the seeder are
\* committed and the loop goes on; or it raises, and the except clause waits
\* for session.rollback(); or it ends in asyncio.CancelledError, which
\* `except Exception` does not catch and which leaves run_all
RunCommit(how) ==
    /\ seedRun.op = "run_all"
    /\ seedRun.pc = "commit"
    /\ CASE how = "ok" ->
              /\ seedDb' = [seedDb EXCEPT !.seeded = @ \cup seedRun.pending]
              /\ seedRun' = seeder_completed(seedRun, seeders)
              /\ UNCHANGED seedCall
         [] how = "raised" ->
              /\ seedRun' = [seedRun EXCEPT !.pc = "rollback",
                                            !.calls = Append(@, "commit")]
              /\ UNCHANGED <<seedDb, seedCall>>
         [] how = "cancelled" ->
              /\ seedRun' = NoRun
              /\ seedCall' =
                   SeedCallOf([seedRun EXCEPT
                                 !.calls = Append(@, "commit"),
                                 !.log = Append(@,
                                     [seeder |-> seeders[seedRun.idx],
                                      failed |-> TRUE,
                                      wrote |-> seedRun.pending])],
                              Raise("CancelledError"), "in_seeder")
              /\ UNCHANGED seedDb
    /\ UNCHANGED <<dbInitialized, seeders, ran, nSeedOps>>
    /\ UNCHANGED notSeed

\* `await session.rollback()` of the except clause ends: the seeder is
\* counted as failed and the loop goes on; or it raises (or is cancelled),
\* and its exception leaves run_all
RunRollback(how) ==
    /\ seedRun.op = "run_all"
    /\ seedRun.pc = "rollback"
    /\ IF how = "ok"
       THEN /\ seedRun' = seeder_failed(seedRun, seeders)
            /\ UNCHANGED seedCall
       ELSE /\ seedRun' = NoRun
            /\ seedCall' =
                 SeedCallOf([seedRun EXCEPT
                               !.calls = Append(@, "rollback"),
                               !.log = Append(@,
                                   [seeder |-> seeders[seedRun.idx],
                                    failed |-> TRUE,
                                    wrote |-> seedRun.pending])],
                            IF how = "raised" THEN Raise("SQLAlchemyError")
                            ELSE Raise("CancelledError"),
                            "in_seeder")
    /\ UNCHANGED <<seedDb, dbInitialized, seeders, ran, nSeedOps>>
    /\ UNCHANGED notSeed

\* the `await session.close()` of the generator of get_session, resumed by
\* `async for` within run_all, ends.  It returns: `async for` is over and
\* run_all returns, or raises RuntimeError when a seeder failed; or it
\* raises, or ends in asyncio.CancelledError, and that exception leaves
\* run_all in place of either
RunAllEnd(how) ==
    /\ seedRun.op = "run_all"
    /\ seedRun.pc = "close"
    /\ seedRun' = NoRun
    /\ seedCall' =
         SeedCallOf([seedRun EXCEPT !.calls = Append(@, "close")],
                    CASE how = "ok" -> run_all_result(seedRun.failed_count)
                      [] how = "raised" -> Raise("SQLAlchemyError")
                      [] how = "cancelled" -> Raise("CancelledError"),
                    IF how = "ok" THEN "no" ELSE "in_close")
    /\ UNCHANGED <<seedDb, dbInitialized, seeders, ran, nSeedOps>>
    /\ UNCHANGED notSeed

SeedInit ==
    /\ seedDb = EmptyDb
    /\ dbInitialized = FALSE
    /\ seeders = <<>>
    /\ ran = {}
    /\ seedRun = NoRun
    /\ seedCall = NoSeedCall
    /\ nSeedOps = 0

AwaitOutcomes == {"ok", "raised", "cancelled"}

SeedNext ==
    \/ \E k \in UserKeys : ApiCreateUser(k)
    \/ \E k \in UserKeys : ApiDeleteUser(k)
    \/ \E m \in ModuleArgs, layout \in ScriptLayouts :
          SeedModuleBegin(m, layout)
    \/ \E layout \in ScriptLayouts : SeedAllModulesBegin(layout)
    \/ \E how \in AwaitOutcomes : SeedResume(how)
    \/ SeedCloseBegin
    \/ \E how \in {"ok", "raised"} : SeedCloseEnd(how)

RunnerNext ==
    \/ \E k \in UserKeys : ApiCreateUser(k)
    \/ \E k \in UserKeys : ApiDeleteUser(k)
    \/ SeedInitialize
    \/ SeedCloseBegin
    \/ \E how \in {"ok", "raised"} : SeedCloseEnd(how)
    \/ \E name \in SeederNames, layout \in ScriptLayouts :
          RegisterSeeder(name, layout)
    \/ \E layout \in ScriptLayouts : RunAllBegin(layout)
    \/ \E how \in AwaitOutcomes : RunFlush(how)
    \/ \E how \in AwaitOutcomes : RunCommit(how)
    \/ \E how \in AwaitOutcomes : RunRollback(how)
    \/ \E how \in AwaitOutcomes : RunAllEnd(how)

(***************************************************************************)
(* File.create (modules/file_management/domain/entities/file.py) and the   *)
(* value objects it builds.  The fields that File.create only passes on    *)
(* (names, owner, description, is_public) are left out.                    *)
(***************************************************************************)
ALLOWED_MIME_TYPES ==
    {"image/jpeg", "image/png", "image/gif", "image/webp",
     "application/pdf",
     "application/msword",
     "application/vnd.openxmlformats-officedocument.wordprocessingml.document",
     "application/vnd.ms-excel",
     "application/vnd.openxmlformats-officedocument.spreadsheetml.sheet",
     "text/plain", "text/csv",
     "application/zip", "application/x-rar-compressed"}

\* MIME types a caller passes: two of the list, one of the list in upper
\* case, two that are not in it, one without a slash and the empty string
MimeInputs ==
    {"image/png", "application/pdf", "IMAGE/PNG", "video/mp4", "text/html",
     "plain", ""}

\* sizes a caller passes: negative, small, and around the limit
SizeInputs ==
    ((-1)..1) \cup ((MAX_FILE_SIZE - MaxOver)..(MAX_FILE_SIZE + MaxOver))

\* paths a caller passes
PathInputs == {"uploads/a.png", "../a.png", ""}

\* MimeType(value): value.lower().strip(), refused when empty or without "/"
MimeType(value) ==
    IF value \in {"", "plain"} THEN Raise("InvalidMimeTypeException")
    ELSE Return(IF value = "IMAGE/PNG" THEN "image/png" ELSE value)

\* FileSize(bytes_value)
FileSize(bytes_value) ==
    IF bytes_value < 0 THEN Raise("InvalidFileSizeException")
    ELSE Return(bytes_value)

\* FilePath(value)
FilePath(value) ==
    IF value \in {"", "../a.png"} THEN Raise("InvalidFilePathException")
    ELSE Return(value)

NoFile == [path |-> "", size |-> 0, mime_type |-> "", download_count |-> 0,
           domain_events |-> <<>>]

\* the construction and the event of File.create, after its two checks
File_build(path, size, mime_type) ==
    LET file_path == FilePath(path)
        file_size == FileSize(size)
        file_mime_type == MimeType(mime_type)
    IN  IF "raised" \in DOMAIN file_path
        THEN [made |-> FALSE, file |-> NoFile, res |-> file_path]
        ELSE IF "raised" \in DOMAIN file_size
        THEN [made |-> FALSE, file |-> NoFile, res |-> file_size]
        ELSE IF "raised" \in DOMAIN file_mime_type
        THEN [made |-> FALSE, file |-> NoFile, res |-> file_mime_type]
        ELSE [made |-> TRUE,
              file |-> [path |-> file_path.value, size |-> file_size.value,
                        mime_type |-> file_mime_type.value,
                        download_count |-> 0,
                        domain_events |-> <<"FileUploadedEvent">>],
              res |-> Return("File")]

\* a File.create that does not look at the MIME type
File_create_any_type(path, size, mime_type) ==
    IF size > MAX_FILE_SIZE
    THEN [made |-> FALSE, file |-> NoFile,
          res |-> Raise("FileSizeLimitExceededException")]
    ELSE File_build(path, size, mime_type)

\* File.create(name, original_name, path, size, mime_type, owner_id, ...)
File_create(path, size, mime_type) ==
    IF size > MAX_FILE_SIZE
    THEN [made |-> FALSE, file |-> NoFile,
          res |-> Raise("FileSizeLimitExceededException")]
    ELSE IF mime_type \notin ALLOWED_MIME_TYPES
    THEN [made |-> FALSE, file |-> NoFile,
          res |-> Raise("InvalidFileTypeException")]
    ELSE File_build(path, size, mime_type)

NoFileCall == [op |-> "none", path |-> "", size |-> 0, mime_type |-> "",
               files |-> 0, events |-> 0, res |-> Return("None")]

\* file = File.create(path=path, size=size, mime_type=mime_type, ...)
FileCreate(path, size, mime_type) ==
    /\ nFileOps < MaxFileOps
    /\ nFileOps' = nFileOps + 1
    /\ LET o == File_create(path, size, mime_type)
       IN  /\ aFile' = IF o.made THEN o.file ELSE aFile
           /\ nFiles' = IF o.made THEN nFiles + 1 ELSE nFiles
           /\ nFileEvents' = nFileEvents + Len(o.file.domain_events)
           /\ fileCall' = [op |-> "create", path |-> path, size |-> size,
                           mime_type |-> mime_type, files |-> nFiles,
                           events |-> nFileEvents, res |-> o.res]
    /\ UNCHANGED notFile

FileInit ==
    /\ aFile = NoFile
    /\ nFiles = 0
    /\ nFileEvents = 0
    /\ fileCall = NoFileCall
    /\ nFileOps = 0

FileNext ==
    \E path \in PathInputs, size \in SizeInputs, mime_type \in MimeInputs :
        FileCreate(path, size, mime_type)

(***************************************************************************)
(* DatabaseConnection (infrastructure/database/connection.py), call by     *)
(* call.  The connection is its pair (_engine, _session_factory).          *)
(***************************************************************************)
NoEngine == 0

\* DatabaseConnection.initialize()
initialize(c, testing, n) ==
    IF c.engine # NoEngine THEN [conn |-> c, res |-> Return(0)]
    ELSE LET e == create_async_engine(testing, n)
         IN  IF "raised" \in DOMAIN e THEN [conn |-> c, res |-> e]
             ELSE [conn |-> [engine |-> e.value, session_factory |-> e.value],
                   res |-> Return(0)]

\* DatabaseConnection.close() up to its await: the engine it waits for in
\* `await self._engine.dispose()`, both fields still set; NoEngine when there
\* is no engine and it returns at once
close_begin(c) == c.engine

\* DatabaseConnection.close() after its await: when dispose() returned both
\* fields are cleared, whatever they hold by then; when it raised they stay
close_end(c, how) ==
    IF how = "ok"
    THEN [conn |-> [engine |-> NoEngine, session_factory |-> NoEngine],
          res |-> Return(0)]
    ELSE [conn |-> c, res |-> Raise("DisposeError")]

\* DatabaseConnection.get_session(), up to the first session it yields: the
\* number of the engine the session is bound to
get_session(c) ==
    IF c.session_factory = NoEngine THEN Raise("RuntimeError")
    ELSE Return(c.session_factory)

\* DatabaseConnection.is_initialized
is_initialized(c) == c.engine # NoEngine

Conn == [engine |-> engine, session_factory |-> session_factory]

NoConnCall ==
    [op |-> "none", was |-> FALSE, lifecycle |-> "new",
     before |-> [engine |-> NoEngine, session_factory |-> NoEngine],
     res |-> Return(0)]

\* the record of a call that starts now
ConnCallOf(name, res) ==
    [op |-> name, was |-> is_initialized(Conn), lifecycle |-> lifecycle,
     before |-> Conn, res |-> res]

\* db.initialize()
ConnInitialize ==
    /\ nConnOps < MaxConnOps
    /\ nConnOps' = nConnOps + 1
    /\ LET o == initialize(Conn, is_testing, nEngines)
       IN  /\ engine' = o.conn.engine
           /\ session_factory' = o.conn.session_factory
           /\ nEngines' = IF o.conn.engine \notin {NoEngine, engine}
                          THEN nEngines + 1 ELSE nEngines
           /\ connCall' = ConnCallOf("initialize", o.res)
    /\ lifecycle' = "initialize"
    /\ UNCHANGED <<is_testing, disposed, disposing>>
    /\ UNCHANGED notConn

\* await db.close(), up to its await
ConnCloseBegin ==
    /\ nConnOps < MaxConnOps
    /\ nConnOps' = nConnOps + 1
    /\ IF close_begin(Conn) = NoEngine
       THEN /\ connCall' = ConnCallOf("close", Return(0))
            /\ lifecycle' = "close"
            /\ UNCHANGED disposing
       ELSE /\ Len(disposing) < MaxConnClosers
            /\ disposing' = Append(disposing,
                                   [engine |-> close_begin(Conn),
                                    call |-> ConnCallOf("close", Return(0))])
            /\ UNCHANGED <<connCall, lifecycle>>
    /\ UNCHANGED <<is_testing, engine, session_factory, nEngines, disposed>>
    /\ UNCHANGED notConn

\* the dispose() that close call i waits for ends, and the call with it
ConnCloseEnd(i, how) ==
    /\ i \in DOMAIN disposing
    /\ LET o == close_end(Conn, how)
       IN  /\ engine' = o.conn.engine
           /\ session_factory' = o.conn.session_factory
           /\ disposed' = IF how = "ok"
                          THEN disposed \cup {disposing[i].engine}
                          ELSE disposed
           /\ connCall' = [disposing[i].call EXCEPT !.res = o.res]
    /\ disposing' = SubSeq(disposing, 1, i - 1)
                    \o SubSeq(disposing, i + 1, Len(disposing))
    /\ lifecycle' = "close"
    /\ UNCHANGED <<is_testing, nEngines, nConnOps>>
    /\ UNCHANGED notConn

\* async for session in db.get_session(): ...
ConnGetSession ==
    /\ nConnOps < MaxConnOps
    /\ nConnOps' = nConnOps + 1
    /\ connCall' = ConnCallOf("get_session", get_session(Conn))
    /\ UNCHANGED <<is_testing, engine, session_factory, nEngines, disposed,
                   disposing, lifecycle>>
    /\ UNCHANGED notConn

ConnInit ==
    /\ is_testing \in BOOLEAN
    /\ engine = NoEngine
    /\ session_factory = NoEngine
    /\ nEngines = 0
    /\ disposed = {}
    /\ disposing = <<>>
    /\ lifecycle = "new"
    /\ connCall = NoConnCall
    /\ nConnOps = 0

ConnNext ==
    \/ ConnInitialize
    \/ ConnCloseBegin
    \/ \E i \in 1..MaxConnClosers, how \in {"ok", "raised"} :
          ConnCloseEnd(i, how)
    \/ ConnGetSession

(***************************************************************************)
(* The visibility, sharing and download methods of File                    *)
(* (modules/file_management/domain/entities/file.py), call by call on one  *)
(* File object.  The fields these methods neither read nor write (name,    *)
(* path, size, MIME type, description) are left out.                       *)
(***************************************************************************)
FileUsers == 1..NumFileUsers

\* a domain event of the file: its class and what the methods put in it
FileEvent(type, user_id, visibility) ==
    [type |-> type, user_id |-> user_id, visibility |-> visibility]

NoAccessFile ==
    [owner_id |-> 0, is_public |-> FALSE, shared_with |-> <<>>,
     download_count |-> 0, updates |-> 0, is_deleted |-> FALSE,
     version |-> 0, domain_events |-> <<>>]

\* the elements of a list
Elems(list) == {list[i] : i \in 1..Len(list)}

\* list.remove(x): the list without the first x
RECURSIVE remove(_, _)
remove(list, x) ==
    IF list = <<>> THEN <<>>
    ELSE IF Head(list) = x THEN Tail(list)
    ELSE <<Head(list)>> \o remove(Tail(list), x)

\* File.create(..., owner_id, is_public) for an input that passes its
\* checks: File.__init__ and the FileUploadedEvent
File_init(owner_id, is_public) ==
    [owner_id |-> owner_id, is_public |-> is_public, shared_with |-> <<>>,
     download_count |-> 0, updates |-> 0, is_deleted |-> FALSE,
     version |-> 0,
     domain_events |-> <<FileEvent("FileUploadedEvent", owner_id, "")>>]

\* BaseEntity.update_timestamp()
update_timestamp(f) == [f EXCEPT !.updates = @ + 1]

\* AggregateRoot.add_domain_event(event) on a file
add_file_event(f, event) ==
    [f EXCEPT !.domain_events = Append(@, event)]

\* AggregateRoot.clear_domain_events() on a file
clear_file_events(f) == [f EXCEPT !.domain_events = <<>>]

\* AggregateRoot.increment_version()
increment_version(f) == update_timestamp([f EXCEPT !.version = @ + 1])

\* BaseEntity.mark_as_deleted(): the flag and the timestamp
mark_as_deleted(f) == update_timestamp([f EXCEPT !.is_deleted = TRUE])

\* BaseEntity.restore()
restore(f) == update_timestamp([f EXCEPT !.is_deleted = FALSE])

\* File.soft_delete(): it does not look at is_deleted, so every call appends
\* a FileDeletedEvent
soft_delete(f) ==
    add_file_event(mark_as_deleted(f),
                   FileEvent("FileDeletedEvent", f.owner_id, ""))

\* File.update_metadata(original_name, description)
update_metadata(f) ==
    add_file_event(update_timestamp(f), FileEvent("FileUpdatedEvent", 0, ""))

\* File.make_public()
make_public(f) ==
    IF f.is_public THEN f
    ELSE add_file_event(update_timestamp([f EXCEPT !.is_public = TRUE]),
                        FileEvent("FileUpdatedEvent", 0, "public"))

\* a make_private() that leaves the shares
make_private_keep_shares(f) ==
    IF ~f.is_public THEN f
    ELSE add_file_event(update_timestamp([f EXCEPT !.is_public = FALSE]),
                        FileEvent("FileUpdatedEvent", 0, "private"))

\* File.make_private()
make_private(f) ==
    IF ~f.is_public THEN f
    ELSE add_file_event(
             update_timestamp([f EXCEPT !.is_public = FALSE,
                                        !.shared_with = <<>>]),
             FileEvent("FileUpdatedEvent", 0, "private"))

\* File.share_with(user_id)
share_with(f, user_id) ==
    IF user_id = f.owner_id THEN f
    ELSE IF user_id \notin Elems(f.shared_with)
    THEN add_file_event(
             update_timestamp([f EXCEPT !.shared_with = Append(@, user_id)]),
             FileEvent("FileSharedEvent", user_id, ""))
    ELSE f

\* File.unshare_with(user_id)
unshare_with(f, user_id) ==
    IF user_id \in Elems(f.shared_with)
    THEN update_timestamp([f EXCEPT !.shared_with = remove(@, user_id)])
    ELSE f

\* File.can_be_accessed_by(user_id)
can_be_accessed_by(f, user_id) ==
    IF user_id = f.owner_id THEN TRUE
    ELSE IF f.is_public THEN TRUE
    ELSE user_id \in Elems(f.shared_with)

\* a record_download() that does not check the access
record_download_unchecked(f, user_id) ==
    [file |-> add_file_event(
                  update_timestamp([f EXCEPT !.download_count = @ + 1]),
                  FileEvent("FileDownloadedEvent", user_id, "")),
     res |-> Return("None")]

\* File.record_download(user_id)
record_download(f, user_id) ==
    IF ~can_be_accessed_by(f, user_id)
    THEN [file |-> f, res |-> Raise("FileAccessDeniedException")]
    ELSE [file |-> add_file_event(
                       update_timestamp([f EXCEPT !.download_count = @ + 1]),
                       FileEvent("FileDownloadedEvent", user_id, "")),
          res |-> Return("None")]

NoAccessCall ==
    [op |-> "none", user_id |-> 0, before |-> NoAccessFile,
     res |-> Return("None")]

\* one call on the file: what it leaves and how it ended
AccessStep(name, user_id, f, res) ==
    /\ nAccessOps < MaxAccessOps
    /\ nAccessOps' = nAccessOps + 1
    /\ theFile' = f
    /\ accessCall' = [op |-> name, user_id |-> user_id, before |-> theFile,
                      res |-> res]
    /\ UNCHANGED notAccess

\* file = File.create(..., owner_id=owner_id, is_public=is_public)
AccessCreate(owner_id, is_public) ==
    /\ ~fileMade
    /\ fileMade' = TRUE
    /\ AccessStep("create", owner_id, File_init(owner_id, is_public),
                  Return("File"))

\* file.update_metadata(...)
UpdateMetadata ==
    /\ fileMade
    /\ UNCHANGED fileMade
    /\ AccessStep("update_metadata", 0, update_metadata(theFile),
                  Return("None"))

\* file.soft_delete()
SoftDelete ==
    /\ fileMade
    /\ UNCHANGED fileMade
    /\ AccessStep("soft_delete", 0, soft_delete(theFile), Return("None"))

\* file.mark_as_deleted(), the method of BaseEntity, called on the file
\* directly: the file is deleted and no event is recorded
MarkAsDeleted ==
    /\ fileMade
    /\ UNCHANGED fileMade
    /\ AccessStep("mark_as_deleted", 0, mark_as_deleted(theFile),
                  Return("None"))

\* file.restore()
Restore ==
    /\ fileMade
    /\ UNCHANGED fileMade
    /\ AccessStep("restore", 0, restore(theFile), Return("None"))

\* file.clear_domain_events()
ClearFileEvents ==
    /\ fileMade
    /\ UNCHANGED fileMade
    /\ AccessStep("clear_domain_events", 0, clear_file_events(theFile),
                  Return("None"))

\* file.add_domain_event(event), with an event of the caller's
AddFileEvent ==
    /\ fileMade
    /\ UNCHANGED fileMade
    /\ AccessStep("add_domain_event", 0,
                  add_file_event(theFile, FileEvent("DomainEvent", 0, "")),
                  Return("None"))

\* file.increment_version()
IncrementVersion ==
    /\ fileMade
    /\ UNCHANGED fileMade
    /\ AccessStep("increment_version", 0, increment_version(theFile),
                  Return("None"))

\* file.update_timestamp()
UpdateTimestamp ==
    /\ fileMade
    /\ UNCHANGED fileMade
    /\ AccessStep("update_timestamp", 0, update_timestamp(theFile),
                  Return("None"))

\* file.make_public()
MakePublic ==
    /\ fileMade
    /\ UNCHANGED fileMade
    /\ AccessStep("make_public", 0, make_public(theFile), Return("None"))

\* file.make_private()
MakePrivate ==
    /\ fileMade
    /\ UNCHANGED fileMade
    /\ AccessStep("make_private", 0, make_private(theFile), Return("None"))

\* file.share_with(user_id)
ShareWith(user_id) ==
    /\ fileMade
    /\ UNCHANGED fileMade
    /\ AccessStep("share_with", user_id, share_with(theFile, user_id),
                  Return("None"))

\* file.unshare_with(user_id)
UnshareWith(user_id) ==
    /\ fileMade
    /\ UNCHANGED fileMade
    /\ AccessStep("unshare_with", user_id, unshare_with(theFile, user_id),
                  Return("None"))

\* file.record_download(user_id)
RecordDownload(user_id) ==
    /\ fileMade
    /\ UNCHANGED fileMade
    /\ LET o == record_download(theFile, user_id)
       IN  AccessStep("record_download", user_id, o.file, o.res)

AccessInit ==
    /\ theFile = NoAccessFile
    /\ fileMade = FALSE
    /\ accessCall = NoAccessCall
    /\ nAccessOps = 0

AccessNext ==
    \/ \E owner_id \in FileUsers, is_public \in BOOLEAN :
          AccessCreate(owner_id, is_public)
    \/ UpdateMetadata
    \/ MakePublic
    \/ MakePrivate
    \/ \E user_id \in FileUsers : ShareWith(user_id)
    \/ \E user_id \in FileUsers : UnshareWith(user_id)
    \/ \E user_id \in FileUsers : RecordDownload(user_id)
    \/ SoftDelete
    \/ MarkAsDeleted
    \/ Restore
    \/ ClearFileEvents
    \/ AddFileEvent
    \/ IncrementVersion
    \/ UpdateTimestamp

(***************************************************************************)
(* Concurrent requests of the user API.  A request is a call of a method   *)
(* of UserService(UserRepository()) from a function wrapped by             *)
(* with_session, which is what the routes are written to do: a session and *)
(* a transaction of its own, committed when the function returns and       *)
(* rolled back when it raises.  The routes of routes.py themselves do not  *)
(* get that far (Request).  The database is                                *)
(* PostgreSQL at its default isolation level (READ COMMITTED): a statement *)
(* sees the rows committed before it starts and the writes of its own      *)
(* transaction; a write to a row, or of a unique key, that another         *)
(* transaction wrote and has not yet committed waits for that transaction  *)
(* to end.  One step per statement sent to the database.                   *)
(***************************************************************************)
Slots == 1..NumSlots
TxnIds == 1..MaxTxns
\* the e-mail addresses and usernames the requests carry
TxnEmails == {[text |-> Word(k), upper |-> FALSE] : k \in 1..NumTxnEmails}
TxnUsernames == {[text |-> Word(k), upper |-> FALSE] : k \in 1..NumTxnNames}

\* the routes that write a user
CreateKind == "create_user"
UpdateKinds ==
    {"update_user", "update_user_email", "activate_user", "deactivate_user"}
DeleteKind == "delete_user"

\* no row: what a transaction that wrote nothing holds, and what
\* session.get returns for an unknown key
NoRow ==
    [id |-> 0, email |-> NoString, username |-> NoString,
     is_active |-> FALSE, is_deleted |-> FALSE]

NoTxn ==
    [kind |-> "none", via |-> "none", pc |-> "idle", id |-> 0,
     email |-> NoString,
     username |-> NoString, fresh |-> FALSE, entity |-> NoRow,
     loaded |-> NoRow, write |-> NoRow, res |-> Return(0)]

\* the rows a statement of a transaction sees: the committed rows, with the
\* row the transaction wrote in place of its committed version
View(T, w) ==
    IF w = NoRow THEN T ELSE {r \in T : r.id # w.id} \cup {w}

\* the row with a primary key (session.get, or the target of an UPDATE)
RowOf(T, id) ==
    IF \E r \in T : r.id = id THEN CHOOSE r \in T : r.id = id ELSE NoRow

\* the rows of `others` that hold the e-mail address or the username of row
SameKey(others, row) ==
    {r \in others : r.id # row.id
                    /\ (r.email = row.email \/ r.username = row.username)}

\* the write of `row` has to wait: another transaction has an uncommitted
\* write of the same row, of a row with one of its unique keys, or of a
\* committed row that holds one of them
MustWait(T, pendingWrites, row) ==
    \E w \in pendingWrites :
        \/ w.id = row.id
        \/ SameKey({w}, row) # {}
        \/ w.id \in {r.id : r \in SameKey(T, row)}

\* the columns session.merge finds changed: the UPDATE of the flush sets
\* these (and updated_at) and no other column
ChangedColumns(loaded, model) ==
    {c \in {"email", "username", "is_active", "is_deleted"} :
        model[c] # loaded[c]}

\* the row an UPDATE of the changed columns leaves, given the row it finds
FlushUpdate(current, loaded, model) ==
    [c \in DOMAIN current |->
        IF c \in ChangedColumns(loaded, model) THEN model[c] ELSE current[c]]

\* the change a route makes to the entity it read, or the exception the
\* entity raises (User.activate, User.deactivate, User.change_email,
\* User.update_profile)
DomainChange(kind, user, email) ==
    CASE kind = "update_user" -> Return(user)
      [] kind = "update_user_email" ->
            Return([user EXCEPT !.email = EmailValue(email)])
      [] kind = "activate_user" ->
            IF user.is_active THEN Raise("InvalidUserStateException")
            ELSE Return([user EXCEPT !.is_active = TRUE])
      [] kind = "deactivate_user" ->
            IF ~user.is_active THEN Raise("InvalidUserStateException")
            ELSE Return([user EXCEPT !.is_active = FALSE])

\* the uncommitted writes of the transactions other than s
PendingOf(s) ==
    {txn[t].write : t \in {u \in Slots : u # s /\ txn[u].write # NoRow}}

\* the route raises: the wrapper rolls back (nothing was written before any
\* raise of these routes) and the exception leaves the request
Fails(s, e) ==
    txn' = [txn EXCEPT ![s].pc = "done", ![s].res = Raise(e),
                      ![s].write = NoRow]

\* the requests a client sends
RequestInputs ==
    {[kind |-> CreateKind, id |-> 0, email |-> e, username |-> u] :
        e \in TxnEmails, u \in TxnUsernames}
    \cup {[kind |-> k, id |-> i, email |-> NoString, username |-> NoString] :
        k \in (UpdateKinds \ {"update_user_email"}) \cup {DeleteKind},
        i \in TxnIds}
    \cup {[kind |-> "update_user_email", id |-> i, email |-> e,
           username |-> NoString] : i \in TxnIds, e \in TxnEmails}

\* how a client gets at a writing route of routes.py: "app", an HTTP
\* request to a FastAPI application that includes the router; "endpoint", a
\* call of the decorated endpoint function
RouteEntries == {"app", "endpoint"}

\* what a request to a writing route of routes.py ends with.  Through the
\* application FastAPI resolves UserServiceDep before the endpoint:
\* get_user_db_session opens a session, get_user_uow builds
\* UserUnitOfWork(session), whose __init__ hands the session to
\* UnitOfWork.__init__(self), and the TypeError is answered with 500 before
\* with_session is entered.  Called as a function, the endpoint hands the
\* UserService to the controller where the controller expects the session,
\* `async with UnitOfWork(session)` raises the same TypeError and the
\* wrapper rolls back.  (routes.py is importable at all only once the name
\* that user_controller.py:8 imports exists.)
route(entry, req) == Raise("TypeError")

\* a request to a writing route: it ends before any statement is sent to
\* the database
Request(s, req, entry) ==
    /\ txn[s].pc \in {"idle", "done"}
    /\ nTxns < MaxTxns
    /\ nTxns' = nTxns + 1
    /\ txn' = [txn EXCEPT ![s] =
          [NoTxn EXCEPT
             !.kind = req.kind, !.via = entry, !.id = req.id,
             !.email = req.email, !.username = req.username,
             !.fresh = (\A r \in dbRows :
                           r.email # lower(req.email)
                           /\ r.username # validate_username(req.username)),
             !.pc = "done",
             !.res = route(entry, req)]]
    /\ UNCHANGED <<dbRows, nextUserId, deleteCommitted>>
    /\ UNCHANGED notTxn

\* a task calls the service method of the request from a function wrapped
\* by with_session, which opens its session
Start(s, req) ==
    /\ txn[s].pc \in {"idle", "done"}
    /\ nTxns < MaxTxns
    /\ nTxns' = nTxns + 1
    /\ txn' = [txn EXCEPT ![s] =
          [NoTxn EXCEPT
             !.kind = req.kind, !.via = "service", !.id = req.id,
             !.email = req.email, !.username = req.username,
             !.fresh = (\A r \in dbRows :
                           r.email # lower(req.email)
                           /\ r.username # validate_username(req.username)),
             !.pc = CASE req.kind = CreateKind -> "get_by_email"
                      [] req.kind = DeleteKind -> "exists"
                      [] OTHER -> "get_by_id"]]
    /\ UNCHANGED <<dbRows, nextUserId, deleteCommitted>>
    /\ UNCHANGED notTxn

\* create_user: existing = await repository.get_by_email(dto.email)
CreateGetByEmail(s) ==
    /\ txn[s].kind = CreateKind /\ txn[s].pc = "get_by_email"
    /\ IF get_by_email(View(dbRows, txn[s].write), txn[s].email) # NoUser
       THEN Fails(s, "ConflictException")
       ELSE txn' = [txn EXCEPT ![s].pc = "get_by_username"]
    /\ UNCHANGED <<dbRows, nextUserId, deleteCommitted, nTxns>>
    /\ UNCHANGED notTxn

\* create_user: existing = await repository.get_by_username(dto.username)
CreateGetByUsername(s) ==
    /\ txn[s].kind = CreateKind /\ txn[s].pc = "get_by_username"
    /\ IF get_by_username(View(dbRows, txn[s].write),
                          validate_username(txn[s].username)) # NoUser
       THEN Fails(s, "ConflictException")
       ELSE txn' = [txn EXCEPT ![s].pc = "add"]
    /\ UNCHANGED <<dbRows, nextUserId, deleteCommitted, nTxns>>
    /\ UNCHANGED notTxn

\* create_user: User.create(...) and repository.add(user): the INSERT of the
\* flush, refused when a committed row holds the address or the username
CreateAdd(s) ==
    /\ txn[s].kind = CreateKind /\ txn[s].pc = "add"
    /\ LET row == to_model(User_create(nextUserId + 1, txn[s].email,
                                       validate_username(txn[s].username)))
       IN  /\ ~MustWait(dbRows, PendingOf(s), row)
           /\ IF SameKey(dbRows, row) # {}
              THEN Fails(s, "IntegrityError")
              ELSE txn' = [txn EXCEPT ![s].pc = "commit", ![s].id = row.id,
                                      ![s].write = row]
    /\ nextUserId' = nextUserId + 1
    /\ UNCHANGED <<dbRows, deleteCommitted, nTxns>>
    /\ UNCHANGED notTxn

\* update_user, update_user_email, activate_user, deactivate_user:
\* user = await repository.get_by_id(user_id); the routes other than
\* update_user_email then change the entity
UpdateGetById(s) ==
    /\ txn[s].kind \in UpdateKinds /\ txn[s].pc = "get_by_id"
    /\ LET user == get_by_id(View(dbRows, txn[s].write), txn[s].id)
           changed == DomainChange(txn[s].kind, user, txn[s].email)
       IN  IF user = NoUser THEN Fails(s, "NotFoundException")
           ELSE IF txn[s].kind = "update_user_email"
           THEN txn' = [txn EXCEPT ![s].pc = "get_by_email",
                                   ![s].entity = user]
           ELSE IF "raised" \in DOMAIN changed
           THEN Fails(s, changed.raised)
           ELSE txn' = [txn EXCEPT ![s].pc = "merge",
                                   ![s].entity = changed.value]
    /\ UNCHANGED <<dbRows, nextUserId, deleteCommitted, nTxns>>
    /\ UNCHANGED notTxn

\* update_user_email: existing = await repository.get_by_email(dto.email),
\* then user.change_email(dto.email)
UpdateGetByEmail(s) ==
    /\ txn[s].kind = "update_user_email" /\ txn[s].pc = "get_by_email"
    /\ LET existing == get_by_email(View(dbRows, txn[s].write), txn[s].email)
       IN  IF existing # NoUser /\ existing.id # txn[s].id
           THEN Fails(s, "ConflictException")
           ELSE txn' = [txn EXCEPT
                  ![s].pc = "merge",
                  ![s].entity = DomainChange(txn[s].kind, txn[s].entity,
                                             txn[s].email).value]
    /\ UNCHANGED <<dbRows, nextUserId, deleteCommitted, nTxns>>
    /\ UNCHANGED notTxn

\* repository.update(user): merged = await session.merge(model).  The
\* session holds no instance of the row any more (the one get_by_id loaded
\* was dropped when get_by_id returned), so merge reads the row by primary
\* key and copies the columns of the model onto it.
UpdateMerge(s) ==
    /\ txn[s].kind \in UpdateKinds /\ txn[s].pc = "merge"
    /\ txn' = [txn EXCEPT
          ![s].pc = "flush",
          ![s].loaded = RowOf(View(dbRows, txn[s].write), txn[s].id)]
    /\ UNCHANGED <<dbRows, nextUserId, deleteCommitted, nTxns>>
    /\ UNCHANGED notTxn

\* repository.update(user): await session.flush(), the UPDATE of the columns
\* merge changed, on the row as it is committed by then
UpdateFlush(s) ==
    /\ txn[s].kind \in UpdateKinds /\ txn[s].pc = "flush"
    /\ LET row == FlushUpdate(RowOf(dbRows, txn[s].id), txn[s].loaded,
                              to_model(txn[s].entity))
       IN  /\ ~MustWait(dbRows, PendingOf(s), row)
           /\ IF SameKey(dbRows, row) # {}
              THEN Fails(s, "IntegrityError")
              ELSE txn' = [txn EXCEPT ![s].pc = "commit", ![s].write = row]
    /\ UNCHANGED <<dbRows, nextUserId, deleteCommitted, nTxns>>
    /\ UNCHANGED notTxn

\* delete_user: exists = await repository.exists(user_id)
DeleteExists(s) ==
    /\ txn[s].kind = DeleteKind /\ txn[s].pc = "exists"
    /\ IF ~exists(View(dbRows, txn[s].write), txn[s].id)
       THEN Fails(s, "NotFoundException")
       ELSE txn' = [txn EXCEPT ![s].pc = "delete"]
    /\ UNCHANGED <<dbRows, nextUserId, deleteCommitted, nTxns>>
    /\ UNCHANGED notTxn

\* delete_user: await repository.delete(user_id, soft=True), the UPDATE that
\* sets is_deleted on the row as it is committed by then
DeleteSoft(s) ==
    /\ txn[s].kind = DeleteKind /\ txn[s].pc = "delete"
    /\ LET row == RowOf(delete(dbRows, txn[s].id, TRUE), txn[s].id)
       IN  /\ ~MustWait(dbRows, PendingOf(s), row)
           /\ txn' = [txn EXCEPT ![s].pc = "commit", ![s].write = row]
    /\ UNCHANGED <<dbRows, nextUserId, deleteCommitted, nTxns>>
    /\ UNCHANGED notTxn

\* the route returned: the wrapper commits and the request is answered
TxnCommit(s) ==
    /\ txn[s].pc = "commit"
    /\ dbRows' = View(dbRows, txn[s].write)
    /\ deleteCommitted' =
          IF txn[s].kind = DeleteKind
          THEN deleteCommitted \cup {txn[s].id} ELSE deleteCommitted
    /\ txn' = [txn EXCEPT ![s].pc = "done", ![s].res = Return(txn[s].id),
                          ![s].write = NoRow]
    /\ UNCHANGED <<nextUserId, nTxns>>
    /\ UNCHANGED notTxn

TxnInit ==
    /\ dbRows = {}
    /\ txn = [s \in Slots |-> NoTxn]
    /\ nextUserId = 0
    /\ deleteCommitted = {}
    /\ nTxns = 0

TxnNext ==
    \/ \E s \in Slots, req \in RequestInputs, entry \in RouteEntries :
          Request(s, req, entry)
    \/ \E s \in Slots, req \in RequestInputs : Start(s, req)
    \/ \E s \in Slots : CreateGetByEmail(s)
    \/ \E s \in Slots : CreateGetByUsername(s)
    \/ \E s \in Slots : CreateAdd(s)
    \/ \E s \in Slots : UpdateGetById(s)
    \/ \E s \in Slots : UpdateGetByEmail(s)
    \/ \E s \in Slots : UpdateMerge(s)
    \/ \E s \in Slots : UpdateFlush(s)
    \/ \E s \in Slots : DeleteExists(s)
    \/ \E s \in Slots : DeleteSoft(s)
    \/ \E s \in Slots : TxnCommit(s)

(***************************************************************************)
(* Specifications                                                          *)
(***************************************************************************)
Init == SessInit /\ UowInit /\ RegInit /\ RepoInit /\ ErrInit
        /\ UserInit /\ SeedInit /\ FileInit /\ ConnInit /\ AccessInit
        /\ TxnInit

\* requests through with_session
SpecSession == Init /\ [][SessNext]_vars

\* one `async with UnitOfWork()` block
SpecUow == Init /\ [][UowNext]_vars

\* commit(), rollback() and block exits on one UnitOfWork instance, in any
\* order
SpecUowCalls == Init /\ [][UowCallsNext]_vars

\* calls on the ModuleBase registry
SpecRegistry == Init /\ [][RegNext]_vars

\* repository and service calls through one session
SpecRepo == Init /\ [][RepoNext]_vars

\* requests that end in an exception
SpecErrors == Init /\ [][ErrNext]_vars

\* calls on one User object
SpecUser == Init /\ [][UserNext]_vars

\* seeding runs, with users made and deleted through the API in between
SpecSeed == Init /\ [][SeedNext]_vars

\* initialize, close and get_session calls on one DatabaseConnection
SpecConn == Init /\ [][ConnNext]_vars

\* File.create calls
SpecFile == Init /\ [][FileNext]_vars

\* SeedRunner runs, with users made and deleted through the API in between
SpecRunner == Init /\ [][RunnerNext]_vars

\* the visibility, sharing and download methods of one File
SpecFileAccess == Init /\ [][AccessNext]_vars

\* concurrent requests of the user API
SpecTxn == Init /\ [][TxnNext]_vars

(***************************************************************************)
(* Claims about with_session and the session context                       *)
(***************************************************************************)
\* the wrapper has left a call that opened a session
Exited(t) == wpc[t] = "exited" /\ sess[t] # NoSession

\* what holds of commit in every call, whatever the rollback does: commit is
\* called at most once, only after func returned, and a call that returned
\* its result committed exactly once before
CommitDiscipline(t) ==
    /\ nCommit[t] <= 1
    /\ nCommit[t] = 1 => funcRes[t] = "returned"
    /\ (funcRes[t] = "returned" /\ wpc[t] = "exited") => nCommit[t] = 1
    /\ outcome[t] = "returned" => (nCommit[t] = 1 /\ funcRes[t] = "returned")

\* C1 as stated: when func returns normally session.commit is called exactly
\* once, after func finished and before the result is returned; when func
\* raises an Exception, session.rollback is called, session.commit is never
\* called and the same exception propagates to the caller.
C1_AsStated ==
    \A t \in Tasks :
        /\ CommitDiscipline(t)
        /\ (Exited(t) /\ funcRes[t] = "FuncError") =>
              /\ nRollback[t] = 1
              /\ nCommit[t] = 0
              /\ outcome[t] = "raised"
              /\ exc[t] = "FuncError"

\* C1 amended: as C1, but the exception of func is the one that propagates
\* only when session.rollback itself succeeds; when session.rollback raises,
\* the exception of rollback propagates in its place.
C1_CommitOnSuccessRollbackOnError ==
    \A t \in Tasks :
        /\ CommitDiscipline(t)
        /\ (Exited(t) /\ funcRes[t] = "FuncError") =>
              /\ nRollback[t] = 1
              /\ nCommit[t] = 0
              /\ outcome[t] = "raised"
              /\ rollbackRes[t] = "ok" => exc[t] = "FuncError"
              /\ rollbackRes[t] = "raised" => exc[t] = "RollbackError"
              /\ rollbackRes[t] = "cancelled" => exc[t] = "Cancelled"

\* one call returned after its commit, another raised the exception of func
\* after a rollback
C1_Witness ==
    \E t, u \in Tasks :
        /\ Exited(t) /\ outcome[t] = "returned" /\ nCommit[t] = 1
        /\ Exited(u) /\ funcRes[u] = "FuncError" /\ rollbackRes[u] = "ok"
        /\ exc[u] = "FuncError"

\* C2: get_current_session returns a session only while a wrapped function is
\* executing, and then the session its wrapper opened; before any call and
\* after the wrapper exited (by return, by an exception of func, by an
\* exception of commit) it raises RuntimeError.
C2_SessionOnlyInsideWrapper ==
    \A t \in Tasks :
        /\ wpc[t] \in {"idle", "exited"} =>
              get_current_session(CURRENT_SESSION, t) = Raise("RuntimeError")
        /\ wpc[t] = "func" =>
              /\ get_current_session(CURRENT_SESSION, t) = Return(sess[t])
              /\ sess[t] = SessionOf(t, calls[t])
              /\ sessState[sess[t]] = "open"

\* a wrapper left by the exception of commit, in a task that had completed a
\* call before
C2_Witness ==
    \E t \in Tasks :
        /\ Exited(t) /\ calls[t] = 2
        /\ funcRes[t] = "returned" /\ exc[t] = "CommitError"
        /\ get_current_session(CURRENT_SESSION, t) = Raise("RuntimeError")

\* C3: with two requests running as separate tasks, under every interleaving
\* get_current_session inside a request returns that request's own session
\* (never the other's), and no step of one task, its clearing of the context
\* included, changes what the other task's context holds.
C3_OwnSession ==
    \A t \in Tasks :
        wpc[t] \in {"func", "commit", "rollback"} =>
            /\ get_current_session(CURRENT_SESSION, t) = Return(sess[t])
            /\ \A u \in Tasks \ {t} :
                  get_current_session(CURRENT_SESSION, u) # Return(sess[t])

C3_OthersUntouched ==
    \A t \in Tasks :
        (wpc'[t] = wpc[t] /\ calls'[t] = calls[t]) =>
            CURRENT_SESSION'[t] = CURRENT_SESSION[t]

C3_TaskIsolation == []C3_OwnSession /\ [][C3_OthersUntouched]_vars

\* one request has left its wrapper and cleared its context while the other
\* is still inside its function with its own session
C3_Witness ==
    \E t, u \in Tasks :
        /\ t # u
        /\ Exited(t)
        /\ wpc[u] = "func"
        /\ get_current_session(CURRENT_SESSION, u) = Return(sess[u])

(***************************************************************************)
(* Claims about UnitOfWork                                                 *)
(***************************************************************************)
\* what __aexit__ does for a block that raised no exception: commit, unless a
\* commit or a rollback was already performed, and then nothing
ExitOfNormalBlock ==
    exitCall.bodyExc = "none" =>
        IF ~exitCall.cBefore /\ ~exitCall.rBefore
        THEN exitCall.sCommit # "none"
        ELSE exitCall.sCommit = "none" /\ exitCall.sRollback = "none"

\* C4 as stated: on leaving the block, if it raised no exception the session
\* is committed unless a commit or rollback was already performed through the
\* unit of work (then nothing is done); if it raised, the session is rolled
\* back, commit is not called and the exception propagates.
C4_AsStated ==
    upc = "exited" =>
        /\ ExitOfNormalBlock
        /\ exitCall.bodyExc # "none" =>
              /\ exitCall.sRollback # "none"
              /\ exitCall.sCommit = "none"
              /\ exitCall.res = exitCall.bodyExc

\* C4 amended: as C4, but a block that raised after a rollback was already
\* performed through the unit of work is left with nothing done, and when
\* session.rollback raises during the exit its exception propagates in place
\* of the block's.
C4_ExitCommitsOrRollsBack ==
    upc = "exited" =>
        /\ ExitOfNormalBlock
        /\ exitCall.bodyExc # "none" =>
              /\ exitCall.sCommit = "none"
              /\ exitCall.rBefore =>
                    (exitCall.sRollback = "none"
                     /\ exitCall.res = exitCall.bodyExc)
              /\ ~exitCall.rBefore =>
                    /\ exitCall.sRollback # "none"
                    /\ exitCall.sRollback = "ok" =>
                          exitCall.res = exitCall.bodyExc
                    /\ exitCall.sRollback = "raised" =>
                          exitCall.res = "RollbackError"
                    /\ exitCall.sRollback = "cancelled" =>
                          exitCall.res = "Cancelled"

\* a block that added an entity and raised was rolled back by the exit, and
\* its exception propagated
C4_Witness ==
    /\ upc = "exited"
    /\ added # {}
    /\ exitCall.bodyExc = "BlockError"
    /\ exitCall.sRollback = "ok"
    /\ exitCall.res = "BlockError"

\* C5 as stated: an entity added through a repository inside the block is
\* retrievable after the block if the block exits normally, and not
\* retrievable (lookup returns None) if it exits by an exception.
C5_AsStated ==
    upc = "exited" =>
        \A e \in added :
            /\ exitCall.res = "ok" => lookup(e) = Return(e)
            /\ exitCall.res # "ok" => lookup(e) = Return(NoEntity)

\* C5 amended: the entity is retrievable after a normal exit when no rollback
\* of the session happened after its add, and not retrievable after an exit
\* by exception when the block called neither uow.commit() nor
\* uow.rollback() itself and the exception is not a CancelledError that cut
\* session.commit short (nothing is rolled back then).
C5_AddedEntityFollowsExit ==
    upc = "exited" =>
        \A e \in added :
            /\ (exitCall.res = "ok" /\ e \notin undone) =>
                  lookup(e) = Return(e)
            /\ (exitCall.res # "ok" /\ exitCall.sCommit # "cancelled"
                /\ ~explicit) =>
                  lookup(e) = Return(NoEntity)

\* a block that added every entity and raised, with no explicit commit or
\* rollback: none of them is found afterwards
C5_Witness ==
    /\ upc = "exited"
    /\ added = Entities
    /\ ~explicit
    /\ exitCall.res = "BlockError"
    /\ \A e \in Entities : lookup(e) = Return(NoEntity)

\* C6 as stated: if session.commit raises during UnitOfWork.commit,
\* session.rollback is called, the unit of work ends marked rolled back and
\* not committed, and the commit exception is re-raised to the caller.
C6_AsStated ==
    (lastCall.op = "commit" /\ lastCall.sCommit \in {"raised", "cancelled"}) =>
        /\ lastCall.sRollback # "none"
        /\ lastCall.rolled_back
        /\ ~lastCall.committed
        /\ lastCall.res = "CommitError"

\* C6 amended: when session.commit raises an Exception, session.rollback is
\* called and the unit of work ends not committed; when that rollback
\* succeeds the unit of work is marked rolled back and the commit exception
\* is re-raised; when session.rollback raises too (or is cancelled), the unit
\* of work is left not marked rolled back and the exception of rollback is
\* raised to the caller.  When session.commit ends in a CancelledError,
\* session.rollback is not called, neither flag is set and the
\* CancelledError goes to the caller.
C6_FailedCommitRollsBack ==
    /\ (lastCall.op = "commit" /\ lastCall.sCommit = "raised") =>
          /\ lastCall.sRollback # "none"
          /\ ~lastCall.committed
          /\ lastCall.sRollback = "ok" =>
                (lastCall.rolled_back /\ lastCall.res = "CommitError")
          /\ lastCall.sRollback = "raised" =>
                (~lastCall.rolled_back /\ lastCall.res = "RollbackError")
          /\ lastCall.sRollback = "cancelled" =>
                (~lastCall.rolled_back /\ lastCall.res = "Cancelled")
    /\ (lastCall.op = "commit" /\ lastCall.sCommit = "cancelled") =>
          /\ lastCall.sRollback = "none"
          /\ ~lastCall.committed
          /\ ~lastCall.rolled_back
          /\ lastCall.res = "Cancelled"

\* uow.commit() whose session.commit raised, rolled back and re-raised
C6_Witness ==
    /\ lastCall.op = "commit"
    /\ lastCall.sCommit = "raised"
    /\ lastCall.sRollback = "ok"
    /\ lastCall.res = "CommitError"
    /\ is_rolled_back /\ ~is_committed
    /\ flushed = {} /\ added # {}

(***************************************************************************)
(* Claims about the ModuleBase registry                                    *)
(***************************************************************************)
\* the tables of the modules registered in d
RegisteredTables(d, heap) ==
    UNION {heap[d[i].value].tables : i \in DOMAIN d}

\* C7: register_module_base is idempotent per module name: after any sequence
\* of calls MODULE_BASES maps each registered name to exactly one ModuleBase,
\* the one created by the first registration of the name with the schema
\* name passed then, no other ModuleBase exists, and a repeated call returns
\* that object, also when it passes a different schema name.
C7_RegisterIdempotent ==
    /\ \A i, j \in DOMAIN MODULE_BASES :
          MODULE_BASES[i].key = MODULE_BASES[j].key => i = j
    /\ Len(objects) = Len(MODULE_BASES)
    /\ \A n \in ModuleNames :
          IF firstBase[n] = NoBase
          THEN ~Has(MODULE_BASES, n)
          ELSE /\ Has(MODULE_BASES, n)
               /\ Get(MODULE_BASES, n) = firstBase[n]
               /\ objects[firstBase[n]].module_name = n
               /\ objects[firstBase[n]].schema_name = firstSchema[n]
    /\ regCall.op = "register" =>
          /\ regCall.ret = Return(firstBase[regCall.name])
          /\ regCall.repeat =>
                (MODULE_BASES = before.bases /\ objects = before.objects)

\* a name registered again with another schema name: the first object came
\* back, with the schema of the first registration
C7_Witness ==
    /\ regCall.op = "register"
    /\ regCall.repeat
    /\ regCall.schema # firstSchema[regCall.name]
    /\ regCall.ret = Return(firstBase[regCall.name])
    /\ objects[firstBase[regCall.name]].schema_name = firstSchema[regCall.name]
    /\ Len(MODULE_BASES) = NumModules

\* C8: get_combined_metadata returns a metadata whose tables are exactly
\* those of all modules registered at the time of the call, by
\* schema-qualified table key (none when no module is registered), every one
\* of them a copy of a registered module's table, and the call changes
\* neither the registry nor any module's own metadata.
C8_CombinedIsUnion ==
    regCall.op = "combined" =>
        /\ {TableKey(t) : t \in combined} =
              {TableKey(t) : t \in RegisteredTables(before.bases, before.objects)}
        /\ combined \subseteq RegisteredTables(before.bases, before.objects)
        /\ before.bases = <<>> => combined = {}
        /\ MODULE_BASES = before.bases
        /\ objects = before.objects

\* two registered modules with tables of their own, merged
C8_Witness ==
    /\ regCall.op = "combined"
    /\ Len(MODULE_BASES) = NumModules
    /\ \A i \in DOMAIN MODULE_BASES : objects[MODULE_BASES[i].value].tables # {}
    /\ \E t, u \in combined : t.base # u.base /\ t.schema # u.schema
    /\ Cardinality(combined) = NumModules

(***************************************************************************)
(* Claims about the repository and UserService                             *)
(***************************************************************************)
\* the table without the row of an id
Without(T, id) == {r \in T : r.id # id}

\* no default query returns or counts the row of the id
Hidden(T, id) ==
    /\ get_by_id(T, id) = NoUser
    /\ ~exists(T, id)
    /\ \A u \in get_all(T, FALSE) : u.id # id
    /\ count(T, FALSE) = count(Without(T, id), FALSE)
    /\ \A f \in Criteria : \A u \in find_by_criteria(T, f) : u.id # id
    /\ \A term \in SearchTerms, fields \in SearchFields :
          \A u \in search(T, term, fields) : u.id # id

\* C9 as stated: after delete(id, soft=True) the row is kept with
\* is_deleted = true (count(include_deleted=True) still counts it), and from
\* then on get_by_id, exists, get_all, count, find_by_criteria and search
\* with default arguments never return or count it.
C9_AsStated ==
    /\ (repoCall.op = "delete" /\ repoCall.soft) =>
          /\ \A r \in usersBefore : r.id = repoCall.id =>
                [r EXCEPT !.is_deleted = TRUE] \in users
          /\ count(users, TRUE) = count(usersBefore, TRUE)
    /\ \A id \in softDeleted : Hidden(users, id)

\* what does hold of a soft delete: the call itself keeps the row, marks it
\* and hides it from the default queries
SoftDeleteHidesRow ==
    (repoCall.op = "delete" /\ repoCall.soft) =>
        /\ \A r \in usersBefore : r.id = repoCall.id =>
              [r EXCEPT !.is_deleted = TRUE] \in users
        /\ count(users, TRUE) = count(usersBefore, TRUE)
        /\ Hidden(users, repoCall.id)

\* a non-deleted user with the e-mail address or the username of the request
ExistsSame(T, e, u) ==
    \E r \in T :
        /\ r.is_deleted = FALSE
        /\ r.email = EmailValue(e) \/ r.username = validate_username(u)

\* C10: UserService.create_user raises ConflictException and adds no user
\* whenever a non-deleted user with the same email, or with the same
\* username, already exists.
C10_DuplicateIsConflict ==
    (repoCall.op = "create_user"
     /\ ExistsSame(usersBefore, repoCall.email, repoCall.username)) =>
        /\ repoCall.res = Raise("ConflictException")
        /\ users = usersBefore

\* a request with a fresh e-mail address and, written with upper-case
\* letters, the username of an existing user: refused, nothing added
C10_Witness ==
    /\ repoCall.op = "create_user"
    /\ repoCall.username.upper
    /\ \E r \in usersBefore :
          r.is_deleted = FALSE /\ r.username = lower(repoCall.username)
    /\ \A r \in usersBefore : r.email # lower(repoCall.email)
    /\ repoCall.res = Raise("ConflictException")
    /\ users = usersBefore

(***************************************************************************)
(* Claims about the exception handlers                                     *)
(***************************************************************************)
\* cls is base or one of its subclasses
RECURSIVE IsA(_, _)
IsA(cls, base) ==
    IF cls = base THEN TRUE
    ELSE IF cls = "object" THEN FALSE
    ELSE IsA(BaseOf(cls), base)

\* the error code in the body of a response
CodeOf(resp) ==
    IF "error" \in DOMAIN resp.content THEN resp.content.error.code ELSE "none"

\* the status the application exceptions are answered with, by class
AppStatusAsStated(cls, resp) ==
    /\ IsA(cls, "NotFoundException") => resp.status_code = 404
    /\ IsA(cls, "ConflictException") => resp.status_code = 409
    /\ IsA(cls, "ValidationException") => resp.status_code = 422
    /\ IsA(cls, "ForbiddenException") => resp.status_code = 403
    /\ IsA(cls, "UnauthorizedException") => resp.status_code = 401
    /\ IsA(cls, "BadRequestException") => resp.status_code = 400
    /\ IsA(cls, "DomainException") => resp.status_code = 422
    /\ IsA(cls, "SQLAlchemyError") =>
          (resp.status_code = 500 /\ CodeOf(resp) = "DATABASE_ERROR")

\* C11 as stated: every exception is answered with the HTTP status of its
\* class: NotFoundException 404, ConflictException 409, ValidationException
\* 422, ForbiddenException 403, UnauthorizedException 401,
\* BadRequestException 400, DomainException 422, a SQLAlchemy error 500 with
\* code DATABASE_ERROR, and any other exception 500 with code
\* INTERNAL_SERVER_ERROR.
C11_AsStated ==
    \A i \in DOMAIN responses :
        LET cls == responses[i].exc.cls
            resp == responses[i].resp
        IN  /\ AppStatusAsStated(cls, resp)
            /\ (\A c \in (AppClasses \ {"InternalServerException"})
                         \cup {"SQLAlchemyError"} : ~IsA(cls, c)) =>
                  (resp.status_code = 500
                   /\ CodeOf(resp) = "INTERNAL_SERVER_ERROR")

\* C11 amended: as C11 for the listed classes; a RequestValidationError is
\* answered 422 with code VALIDATION_ERROR, an HTTPException (what
\* BaseController.error raises) with the status code it carries, and any
\* other exception 500 with code INTERNAL_SERVER_ERROR.
C11_StatusByClass ==
    \A i \in DOMAIN responses :
        LET cls == responses[i].exc.cls
            resp == responses[i].resp
        IN  /\ AppStatusAsStated(cls, resp)
            /\ cls = "RequestValidationError" =>
                  (resp.status_code = 422 /\ CodeOf(resp) = "VALIDATION_ERROR")
            /\ cls = "HTTPException" =>
                  resp.status_code = responses[i].exc.status_code
            /\ (/\ \A c \in (AppClasses \ {"InternalServerException"})
                            \cup {"SQLAlchemyError"} : ~IsA(cls, c)
                /\ cls \notin {"RequestValidationError", "HTTPException"}) =>
                  (resp.status_code = 500
                   /\ CodeOf(resp) = "INTERNAL_SERVER_ERROR")

\* a duplicate answered 409, then a database error answered 500
C11_Witness ==
    /\ Len(responses) = 2
    /\ responses[1].exc.cls = "ConflictException"
    /\ responses[1].resp.status_code = 409
    /\ responses[2].exc.cls = "IntegrityError"
    /\ responses[2].resp.status_code = 500
    /\ CodeOf(responses[2].resp) = "DATABASE_ERROR"

\* C12 as stated: the JSON body of every error response produced by the
\* centralized handlers, including the one for an application exception such
\* as the 409 of a duplicate email, contains the field success with value
\* false.
C12_AsStated ==
    \A i \in DOMAIN responses :
        responses[i].resp.handler # "http_exception_handler" =>
            /\ "success" \in DOMAIN responses[i].resp.content
            /\ responses[i].resp.content.success = FALSE


\* C19 as stated: through one UnitOfWork instance the session is
\* successfully committed at most once and rolled back at most once, whatever
\* commit(), rollback() and block exits occur; commit() after a successful
\* commit or after a rollback, and rollback() after a rollback, call nothing
\* on the session.
C19_AsStated ==
    /\ sessionCalls.commit_ok <= 1
    /\ sessionCalls.rollback_ok <= 1
    /\ uowCall.op = "commit"
       /\ (uowCall.calls.commit_ok > 0 \/ uowCall.calls.rollback_all > 0) =>
          sessionCalls = uowCall.calls
    /\ uowCall.op = "rollback" /\ uowCall.calls.rollback_all > 0 =>
          sessionCalls = uowCall.calls

\* C19: the same, where "after a rollback" is after a session.rollback that
\* returned: a session.rollback that raised leaves the unit of work unmarked,
\* and the next commit() or rollback() calls the session again.
C19_AtMostOnce ==
    /\ sessionCalls.commit_ok <= 1
    /\ sessionCalls.rollback_ok <= 1
    /\ uowCall.op = "commit"
       /\ (uowCall.calls.commit_ok > 0 \/ uowCall.calls.rollback_ok > 0) =>
          sessionCalls = uowCall.calls
    /\ uowCall.op = "rollback" /\ uowCall.calls.rollback_ok > 0 =>
          sessionCalls = uowCall.calls

\* the block was left by an exception and rolled back, and rollback() was
\* called on the instance afterwards
C19_Witness ==
    /\ upc = "exited"
    /\ uowCall.op = "rollback"
    /\ uowCall.calls.rollback_ok = 1
    /\ uowCall.rolled_back
    /\ sessionCalls = uowCall.calls
    /\ exitCall.sRollback = "ok"

(***************************************************************************)
(* Claims about the User aggregate and the Email value object.            *)
(***************************************************************************)
UserRaised == "raised" \in DOMAIN userCall.res

\* C13: deactivate succeeds only on an active user and activate only on an
\* inactive one; in the other state each raises InvalidUserStateException
\* and leaves is_active and the list of domain events as they were.
C13_StateChecked ==
    /\ userCall.op = "deactivate" =>
          /\ ~UserRaised <=> userBefore.is_active
          /\ ~UserRaised => ~aUser.is_active
    /\ userCall.op = "activate" =>
          /\ ~UserRaised <=> ~userBefore.is_active
          /\ ~UserRaised => aUser.is_active
    /\ userCall.op \in {"activate", "deactivate"} /\ UserRaised =>
          /\ userCall.res = Raise("InvalidUserStateException")
          /\ aUser.is_active = userBefore.is_active
          /\ aUser.domain_events = userBefore.domain_events

\* a deactivate on an inactive user that holds events: refused
C13_Witness ==
    /\ userCall.op = "deactivate"
    /\ UserRaised
    /\ ~userBefore.is_active
    /\ Len(userBefore.domain_events) > 0

\* C14 as stated: for a User made by User.create, until clear_domain_events
\* is called, the number of domain events is 1 plus the number of successful
\* update_profile, change_email, activate and deactivate calls.
C14_AsStated ==
    made = "create" /\ ~cleared =>
        Len(aUser.domain_events) = 1 + nSuccess

\* the four methods of User the claim names
UserMutators == {"update_profile", "change_email", "activate", "deactivate"}

\* C14: for a User made by User.create, until clear_domain_events is called,
\* the number of domain events is 1 plus the number of successful
\* update_profile, change_email, activate and deactivate calls plus the
\* number of add_domain_event calls made on the object directly; each
\* successful call of the four appends exactly one event, and one that raises
\* appends none and leaves the email unchanged.
C14_EventPerSuccess ==
    /\ made = "create" /\ ~cleared =>
          Len(aUser.domain_events) = 1 + nSuccess + nAdded
    /\ made = "create" /\ userCall.op \in UserMutators /\ UserRaised =>
          /\ aUser.domain_events = userBefore.domain_events
          /\ aUser.email = userBefore.email
          /\ userCall.res \in {Raise("InvalidUserStateException"),
                                Raise("InvalidEmailException")}
    /\ made = "create" /\ userCall.op \in UserMutators /\ ~UserRaised =>
          /\ Len(aUser.domain_events) = Len(userBefore.domain_events) + 1
          /\ SubSeq(aUser.domain_events, 1, Len(userBefore.domain_events))
                = userBefore.domain_events

\* a successful call and a direct add_domain_event, then a change_email
\* with an invalid address
C14_Witness ==
    /\ made = "create"
    /\ ~cleared
    /\ nSuccess >= 1
    /\ nAdded >= 1
    /\ userCall.op = "change_email"
    /\ userCall.res = Raise("InvalidEmailException")

\* C15: an Email built from a well-formed address (of at most 254 characters,
\* padding counted) that carries leading or trailing whitespace or upper-case
\* letters is accepted, and its value is that address stripped and
\* lower-cased.
C15_AsStated ==
    (userCall.op \in {"create", "change_email"}
     /\ userCall.raw.formed
     /\ strlen(userCall.raw) <= MAX_EMAIL_LENGTH) =>
        /\ ~UserRaised
        /\ aUser.email = strip(lower(userCall.raw))

(***************************************************************************)
(* Claims about the seeders.                                               *)
(***************************************************************************)
\* C16: a seed_module run for a module, and a seed_all_modules run, made on
\* a database an earlier run of the same kind was made on, adds no row and
\* changes no row: the database after the two runs is the database after
\* the first.
C16_SeedIdempotent ==
    (seedCall.op \in {"seed_module", "seed_all_modules"}
     /\ seedCall.repeat) => seedCall.wrote = {}

\* a second seed_module("user") on an initialized connection: its seeder
\* ran and the call ended after the rollback, having written nothing
C16_Witness ==
    /\ seedCall.op = "seed_module"
    /\ seedCall.module = "user"
    /\ seedCall.repeat
    /\ seedCall.initialized
    /\ seedCall.calls = <<"rollback">>
    /\ seedCall.wrote = {}
    /\ "user" \in ran

\* the seeders of the last run_all, in the order in which they ran
RanSeeders == [j \in 1..Len(seedCall.log) |-> seedCall.log[j].seeder]

\* the rows of a seeder of the last run_all that failed are not in the
\* database, those of one that did not fail are
OwnTransactions ==
    \A j \in 1..Len(seedCall.log) :
        IF seedCall.log[j].failed
        THEN seedCall.log[j].wrote \cap seedDb.seeded = {}
        ELSE seedCall.log[j].wrote \subseteq seedDb.seeded

SomeSeederFailed == \E j \in 1..Len(seedCall.log) : seedCall.log[j].failed

\* C20 as stated: run_all runs every registered seeder once, in registration
\* order, each in its own transaction, the ones after a failing seeder
\* included, and raises RuntimeError exactly when a seeder failed.
C20_AsStated ==
    seedCall.op = "run_all" =>
        /\ RanSeeders = seeders
        /\ OwnTransactions
        /\ seedCall.res = Raise("RuntimeError") <=> SomeSeederFailed

\* C20: the same, for a run on an initialized connection in which no
\* session.rollback or session.close raises and no session call is
\* cancelled.  On a connection that is not initialized run_all with seeders
\* registered raises RuntimeError before any seeder runs; when the rollback
\* after a failing seeder raises, or a flush, commit or rollback ends in
\* CancelledError, that exception leaves run_all, the seeders after it do
\* not run and what was committed before stays; when the session.close
\* after the last seeder raises or is cancelled, every seeder has run and
\* that exception leaves run_all in place of the RuntimeError or the return.
C20_RunAllUnlessRollbackFails ==
    seedCall.op = "run_all" =>
        /\ OwnTransactions
        /\ ((seedCall.initialized \/ seeders = <<>>)
            /\ seedCall.aborted = "no") =>
              /\ RanSeeders = seeders
              /\ seedCall.res = Raise("RuntimeError") <=> SomeSeederFailed
              /\ seedCall.res \in {Raise("RuntimeError"), Return("None")}
        /\ ~seedCall.initialized /\ seeders # <<>> =>
              /\ seedCall.log = <<>>
              /\ seedCall.res = Raise("RuntimeError")
        /\ seedCall.aborted = "in_seeder" =>
              /\ seedCall.res \in {Raise("SQLAlchemyError"),
                                   Raise("CancelledError")}
              /\ RanSeeders = SubSeq(seeders, 1, Len(seedCall.log))
              /\ seedCall.log[Len(seedCall.log)].failed
        /\ seedCall.aborted = "in_close" =>
              /\ seedCall.res \in {Raise("SQLAlchemyError"),
                                   Raise("CancelledError")}
              /\ RanSeeders = seeders

\* the first seeder failed, the second one still ran and its rows stayed
C20_Witness ==
    /\ seedCall.op = "run_all"
    /\ Len(seedCall.log) = 2
    /\ seedCall.log[1].failed
    /\ ~seedCall.log[2].failed
    /\ seedCall.log[2].wrote # {}
    /\ seedCall.log[2].wrote \subseteq seedDb.seeded
    /\ seedCall.res = Raise("RuntimeError")

(***************************************************************************)
(* Claims about File.create.                                               *)
(***************************************************************************)
\* C17: File.create raises FileSizeLimitExceededException when the size
\* exceeds 100 MB (MAX_FILE_SIZE bytes) and InvalidFileTypeException when the
\* MIME type is not in the allowed list (the size is looked at first, so a
\* call that fails both checks raises the former); in both cases no File is
\* created and no event is emitted.
C17_CreateValidates ==
    fileCall.op = "create" =>
        LET big == fileCall.size > 100 * 1024 * 1024
            badType == fileCall.mime_type \notin ALLOWED_MIME_TYPES
        IN  /\ big => fileCall.res = Raise("FileSizeLimitExceededException")
            /\ badType /\ ~big =>
                  fileCall.res = Raise("InvalidFileTypeException")
            /\ big \/ badType =>
                  /\ "raised" \in DOMAIN fileCall.res
                  /\ nFiles = fileCall.files
                  /\ nFileEvents = fileCall.events
            /\ "raised" \notin DOMAIN fileCall.res =>
                  /\ nFiles = fileCall.files + 1
                  /\ nFileEvents = fileCall.events + 1

\* after a File was made: one call over the limit by a byte with an allowed
\* type
C17_Witness ==
    /\ fileCall.op = "create"
    /\ fileCall.size = MAX_FILE_SIZE + 1
    /\ fileCall.mime_type \in ALLOWED_MIME_TYPES
    /\ fileCall.res = Raise("FileSizeLimitExceededException")
    /\ nFiles = 1
    /\ nFileEvents = 1

(***************************************************************************)
(* Claims about DatabaseConnection.                                        *)
(***************************************************************************)
\* C18: after any sequence of initialize and close calls, get_session raises
\* RuntimeError exactly when the connection is not initialized, that is
\* before the first initialize and after every close; initialize on an
\* initialized connection and close on an uninitialized one change nothing.
C18_AsStated ==
    /\ connCall.op = "get_session" =>
          /\ connCall.res = Raise("RuntimeError") <=> ~connCall.was
          /\ ~connCall.was <=> connCall.lifecycle \in {"new", "close"}
    /\ connCall.op = "initialize" /\ connCall.was => Conn = connCall.before
    /\ connCall.op = "close" /\ ~connCall.was => Conn = connCall.before

(***************************************************************************)
(* Claims about the visibility, sharing and download methods of File       *)
(***************************************************************************)
\* the owner is the only user who can access the file
OwnerOnly(f) ==
    \A u \in FileUsers : can_be_accessed_by(f, u) <=> u = f.owner_id

\* C21 as stated: after make_private() returns, the file is private,
\* shared_with is empty and only the owner can access the file, whatever
\* calls came before.
C21_AsStated ==
    accessCall.op = "make_private" =>
        /\ ~theFile.is_public
        /\ theFile.shared_with = <<>>
        /\ OwnerOnly(theFile)

\* C21: after make_private() returns the file is private; when the file was
\* public at the call, shared_with is empty and only the owner can access the
\* file; when the file was private already, the call changes nothing, the
\* shares that share_with added included.
C21_MakePrivateClearsPublic ==
    accessCall.op = "make_private" =>
        /\ ~theFile.is_public
        /\ accessCall.before.is_public =>
              /\ theFile.shared_with = <<>>
              /\ OwnerOnly(theFile)
        /\ ~accessCall.before.is_public => theFile = accessCall.before

\* make_private() on a public file that was shared with a user
C21_Witness ==
    /\ accessCall.op = "make_private"
    /\ accessCall.before.is_public
    /\ accessCall.before.shared_with # <<>>
    /\ theFile.shared_with = <<>>
    /\ ~theFile.is_public

\* C22: record_download(user) adds exactly 1 to download_count and appends
\* one FileDownloadedEvent when the user is the owner, the file is public or
\* the user is in shared_with; otherwise it raises FileAccessDeniedException
\* and leaves download_count and the domain events as they were.
C22_DownloadChecked ==
    accessCall.op = "record_download" =>
        LET b == accessCall.before
            u == accessCall.user_id
        IN  IF u = b.owner_id \/ b.is_public \/ u \in Elems(b.shared_with)
            THEN /\ accessCall.res = Return("None")
                 /\ theFile.download_count = b.download_count + 1
                 /\ theFile.domain_events =
                        Append(b.domain_events,
                               FileEvent("FileDownloadedEvent", u, ""))
            ELSE /\ accessCall.res = Raise("FileAccessDeniedException")
                 /\ theFile.download_count = b.download_count
                 /\ theFile.domain_events = b.domain_events

\* a user the private file is not shared with was refused
C22_Witness ==
    /\ accessCall.op = "record_download"
    /\ accessCall.res = Raise("FileAccessDeniedException")
    /\ accessCall.user_id # theFile.owner_id
    /\ theFile.download_count > 0
    /\ theFile = accessCall.before

(***************************************************************************)
(* Claim about the two flags of a UnitOfWork                               *)
(***************************************************************************)
\* C23: in every reachable state of a UnitOfWork the flags _is_committed and
\* _is_rolled_back are not both true: a unit of work that has committed is
\* never also recorded as rolled back.
C23_AsStated == ~(is_committed /\ is_rolled_back)

(***************************************************************************)
(* Claim about the session of a with_session call                          *)
(***************************************************************************)
\* C24: every session opened for a with_session call is closed by the time
\* the wrapper returns or raises: no wrapper call ends, by return or by
\* exception, with its session still open.
C24_AsStated ==
    \A t \in Tasks :
        wpc[t] = "exited" /\ sess[t] # NoSession =>
            sessState[sess[t]] = "closed"

(***************************************************************************)
(* Claim about creating a user with the address of a soft-deleted one      *)
(***************************************************************************)
\* a soft-deleted user with the e-mail address or the username of the request
DeletedSame(T, e, u) ==
    \E r \in T :
        /\ r.is_deleted = TRUE
        /\ r.email = EmailValue(e) \/ r.username = validate_username(u)

\* C25: create_user with the email or the username of a soft-deleted user
\* either succeeds or raises ConflictException; it never ends in a database
\* uniqueness error, answered with 500 DATABASE_ERROR.
C25_AsStated ==
    (repoCall.op = "create_user"
     /\ DeletedSame(usersBefore, repoCall.email, repoCall.username)) =>
        IF "raised" \in DOMAIN repoCall.res
        THEN /\ repoCall.res = Raise("ConflictException")
             /\ LET resp == respond(NewException(repoCall.res.raised, 400))
                IN  ~(resp.status_code = 500
                      /\ CodeOf(resp) = "DATABASE_ERROR")
        ELSE users # usersBefore

(***************************************************************************)
(* Claims about concurrent requests of the user API                        *)
(***************************************************************************)
\* two create_user requests with the same e-mail address, both answered,
\* each of which arrived when no user held its address or its username
SameEmailPair(a, b) ==
    /\ a # b
    /\ txn[a].kind = CreateKind /\ txn[b].kind = CreateKind
    /\ txn[a].pc = "done" /\ txn[b].pc = "done"
    /\ lower(txn[a].email) = lower(txn[b].email)
    /\ txn[a].fresh /\ txn[b].fresh

\* C26: under every interleaving of two concurrent create_user requests with
\* the same email, exactly one user with that email is stored, one request
\* succeeds, and the other fails with ConflictException (409).
C26_AsStated ==
    \A a, b \in Slots :
        SameEmailPair(a, b) =>
            /\ Cardinality({r \in dbRows : r.email = lower(txn[a].email)}) = 1
            /\ \/ /\ "value" \in DOMAIN txn[a].res
                  /\ txn[b].res = Raise("ConflictException")
               \/ /\ "value" \in DOMAIN txn[b].res
                  /\ txn[a].res = Raise("ConflictException")

\* C27: once a delete_user request has committed, the user stays
\* soft-deleted under every interleaving with concurrent update_user,
\* update_user_email, activate_user or deactivate_user requests for the same
\* id: no request that read the user before the delete sets is_deleted back
\* to false when it writes.
C27_AsStated ==
    \A id \in deleteCommitted : RowOf(dbRows, id).is_deleted = TRUE

====
